---- MODULE Spec2Model ----
(***************************************************************************)
(* SafePaw: the dual-listener server runtime (src/src/server.rs,           *)
(* src/src/main.rs), the Multipass tool adapter (src/src/vm.rs), the       *)
(* control facade and the surfaces over it (src/src/cli.rs, server.rs).    *)
(*                                                                         *)
(* Spec      : run_server, its two listener futures, the termination       *)
(*             signal and main's error report.                             *)
(* SpecFair  : Spec with the fairness the tokio runtime gives to tasks     *)
(*             that are ready to run.                                      *)
(* SpecAdapter : any sequence of MultipassCli operations against an        *)
(*             executor whose outputs are chosen when it is called.        *)
(* SpecFixture : MultipassCli operations against an executor scripted      *)
(*             with one fixture (as tests/multipass_adapter.rs does).      *)
(* SpecSurface : requests on the primary HTTP surface (server.rs) and the  *)
(*             interactive surface (cli.rs, main.rs) over LocalVmApi.      *)
(* SpecV1    : requests on the /v1/vm router (vm.rs, app).                 *)
(***************************************************************************)
EXTENDS Integers, Sequences, FiniteSets, TLC

VARIABLES
    rs_pc,        \* run_server: "entry", "try_join", "returned"
    rs_result,    \* run_server's Result: "Pending", "Ok", "Err"
    rs_error,     \* the context of the error run_server returns
    lstate,       \* per listener: Idle, Binding, Running, ShuttingDown, Stopped
    outcome,      \* per listener future: none, ok, err, dropped
    bound,        \* per listener: TcpListener::bind returned Ok
    inflight,     \* per listener: connection tasks serving a request
    aborted,      \* per listener: requests cut off by the process ending
    sig,          \* per listener: its shutdown_signal future
    handler,      \* the process has a tokio signal handler installed
    signals,      \* termination signals sent to the process so far
    proc,         \* main: "running", "reported", "exit0", "exit1", "killed"
    calls,        \* the executor's call log (FakeExecutor.calls)
    ops,          \* the operations callers issued, in call order
    last,         \* the last operation: what the executor gave, what it returned
                  \* (under SpecSurface: the operation of the last request)
    fixture,      \* what the scripted executor was built from (SpecFixture);
                  \* what the last spawned process did (SpecProcess)
    script,       \* the scripted executor's outputs still to give
    api_calls,    \* the VmApi operations called, in call order
    api_ret,      \* what the VmApi operation of the last request returned
    resp,         \* what a surface answered to the last request
    reqs          \* per listener: the requests being served, oldest first
                  \* (SpecRequests)

server_vars == <<rs_pc, rs_result, rs_error, lstate, outcome, bound, inflight,
                 aborted, sig, handler, signals, proc>>
adapter_vars == <<calls, ops, last, fixture, script>>
surface_vars == <<api_calls, api_ret, resp, reqs>>
vars == <<rs_pc, rs_result, rs_error, lstate, outcome, bound, inflight,
          aborted, sig, handler, signals, proc, calls, ops, last, fixture,
          script, api_calls, api_ret, resp, reqs>>

(***************************************************************************)
(* Bounds of the model.                                                    *)
(***************************************************************************)
MaxInflight == 2
MaxSignals == 2

(***************************************************************************)
(* Server runtime: src/src/server.rs run_server, shutdown_signal           *)
(***************************************************************************)
Listeners == {"api", "ui"}

Sibling(l) == IF l = "api" THEN "ui" ELSE "api"

BindContext(l) ==
    IF l = "api" THEN "failed to bind API server" ELSE "failed to bind UI server"

\* An accept loop that goes on taking connections while it shuts down.
Accepting_WhileShuttingDown(l) == lstate[l] \in {"Running", "ShuttingDown"}

\* The listener holds a bound socket and its accept loop is live.
Accepting(l) == lstate[l] = "Running"

\* tokio::join!: waits for every future, whatever each returns.
join_all(oc) ==
    IF \A l \in Listeners : oc[l] \in {"ok", "err"}
    THEN (IF \E l \in Listeners : oc[l] = "err" THEN "Err" ELSE "Ok")
    ELSE "Pending"

\* tokio::select! over the two futures: decided by whichever returns first.
select_first(oc) ==
    IF \E l \in Listeners : oc[l] = "err" THEN "Err"
    ELSE IF \E l \in Listeners : oc[l] = "ok" THEN "Ok"
    ELSE "Pending"

\* tokio::try_join!(api_server, ui_server): Err as soon as one future returns
\* Err, Ok once every future has returned Ok, pending otherwise.
try_join(oc) ==
    IF \E l \in Listeners : oc[l] = "err" THEN "Err"
    ELSE IF \A l \in Listeners : oc[l] = "ok" THEN "Ok"
    ELSE "Pending"

\* Futures that are spawned tasks: letting go of them stops nothing.
KeepFutures(ls) == ls

\* try_join! returning Err ends the block that owns both futures: a future
\* that has not completed is dropped, and with it its TcpListener.
DropFutures(ls) == [l \in Listeners |-> "Stopped"]

\* A connection is served whatever the listener is waiting for.
Drained_NoWait(l) == TRUE

\* axum::serve(..).with_graceful_shutdown(..): after the signal the serve
\* future completes once every connection task has finished.
Drained(l) == inflight[l] = 0

\* One poll of try_join! after a listener future has taken a step that left
\* the listener states ls and the future outcomes oc: run_server returns when
\* the join is decided (line 318, then Ok(()) at line 320).
Resolve(ls, oc, ctx) ==
    LET r == try_join(oc) IN
    /\ rs_result' = r
    /\ rs_pc' = IF r = "Pending" THEN "try_join" ELSE "returned"
    /\ rs_error' = IF r = "Err" THEN ctx ELSE rs_error
    /\ lstate' = IF r = "Err" THEN DropFutures(ls) ELSE ls
    /\ outcome' = IF r = "Err"
                  THEN [l \in Listeners |->
                          IF oc[l] = "none" /\ DropFutures(ls)[l] = "Stopped"
                          THEN "dropped" ELSE oc[l]]
                  ELSE oc

\* host.parse() fails: run_server returns before any listener exists.
ParseHostFail ==
    /\ proc = "running" /\ rs_pc = "entry"
    /\ rs_pc' = "returned"
    /\ rs_result' = "Err"
    /\ rs_error' = "invalid host address"
    /\ UNCHANGED <<lstate, outcome, bound, inflight, aborted, sig, handler,
                   signals, proc>>
    /\ UNCHANGED <<adapter_vars, surface_vars>>

\* The first poll of try_join! polls both futures: each calls
\* TcpListener::bind(addr) and awaits it.
Startup ==
    /\ proc = "running" /\ rs_pc = "entry"
    /\ rs_pc' = "try_join"
    /\ lstate' = [l \in Listeners |-> "Binding"]
    /\ UNCHANGED <<rs_result, rs_error, outcome, bound, inflight, aborted, sig,
                   handler, signals, proc>>
    /\ UNCHANGED <<adapter_vars, surface_vars>>

\* bind returns Ok: axum::serve(listener, router) starts, and
\* shutdown_signal() is created for it.
BindOk(l) ==
    /\ proc = "running" /\ rs_pc = "try_join" /\ lstate[l] = "Binding"
    /\ lstate' = [lstate EXCEPT ![l] = "Running"]
    /\ bound' = [bound EXCEPT ![l] = TRUE]
    /\ sig' = [sig EXCEPT ![l] = "created"]
    /\ UNCHANGED <<rs_pc, rs_result, rs_error, outcome, inflight, aborted,
                   handler, signals, proc>>
    /\ UNCHANGED <<adapter_vars, surface_vars>>

\* bind returns Err: `?` ends the listener future with the error in context,
\* and the same poll of try_join! sees it.
BindFail(l) ==
    /\ proc = "running" /\ rs_pc = "try_join" /\ lstate[l] = "Binding"
    /\ Resolve([lstate EXCEPT ![l] = "Stopped"],
               [outcome EXCEPT ![l] = "err"], BindContext(l))
    /\ UNCHANGED <<bound, inflight, aborted, sig, handler, signals, proc>>
    /\ UNCHANGED <<adapter_vars, surface_vars>>

\* shutdown_signal is polled for the first time: ctrl_c() and
\* signal(SignalKind::terminate()) install the handlers and start listening.
PollSignal(l) ==
    /\ proc \in {"running", "reported"} /\ sig[l] = "created"
    /\ sig' = [sig EXCEPT ![l] = "waiting"]
    /\ handler' = TRUE
    /\ UNCHANGED <<rs_pc, rs_result, rs_error, lstate, outcome, bound, inflight,
                   aborted, signals, proc>>
    /\ UNCHANGED <<adapter_vars, surface_vars>>

\* The accept loop takes a connection and spawns its task.
Accept(l) ==
    /\ proc = "running" /\ Accepting(l)
    /\ inflight[l] < MaxInflight
    /\ inflight' = [inflight EXCEPT ![l] = @ + 1]
    /\ UNCHANGED <<rs_pc, rs_result, rs_error, lstate, outcome, bound, aborted,
                   sig, handler, signals, proc>>
    /\ UNCHANGED <<adapter_vars, surface_vars>>

\* A connection task finishes its request.
Complete(l) ==
    /\ proc \in {"running", "reported"} /\ inflight[l] > 0
    /\ inflight' = [inflight EXCEPT ![l] = @ - 1]
    /\ UNCHANGED <<rs_pc, rs_result, rs_error, lstate, outcome, bound, aborted,
                   sig, handler, signals, proc>>
    /\ UNCHANGED <<adapter_vars, surface_vars>>

\* SIGINT or SIGTERM reaches the process. Without a handler the default
\* disposition ends the process; with one, every shutdown_signal future that
\* is listening completes (select! at lines 341-348).
Signal ==
    /\ proc \in {"running", "reported"} /\ signals < MaxSignals
    /\ signals' = signals + 1
    /\ IF handler
       THEN /\ sig' = [l \in Listeners |->
                         IF sig[l] = "waiting" THEN "fired" ELSE sig[l]]
            /\ UNCHANGED <<proc, inflight, aborted>>
       ELSE /\ proc' = "killed"
            /\ aborted' = [l \in Listeners |-> aborted[l] + inflight[l]]
            /\ inflight' = [l \in Listeners |-> 0]
            /\ UNCHANGED sig
    /\ UNCHANGED <<rs_pc, rs_result, rs_error, lstate, outcome, bound, handler>>
    /\ UNCHANGED <<adapter_vars, surface_vars>>

\* The serve loop sees its signal: it stops accepting and closes the socket.
BeginShutdown(l) ==
    /\ proc = "running" /\ rs_pc = "try_join"
    /\ lstate[l] = "Running" /\ sig[l] = "fired"
    /\ lstate' = [lstate EXCEPT ![l] = "ShuttingDown"]
    /\ UNCHANGED <<rs_pc, rs_result, rs_error, outcome, bound, inflight, aborted,
                   sig, handler, signals, proc>>
    /\ UNCHANGED <<adapter_vars, surface_vars>>

\* The serve future returns Ok(()) and the same poll of try_join! sees it.
FinishShutdown(l) ==
    /\ proc = "running" /\ rs_pc = "try_join"
    /\ lstate[l] = "ShuttingDown" /\ Drained(l)
    /\ Resolve([lstate EXCEPT ![l] = "Stopped"],
               [outcome EXCEPT ![l] = "ok"], rs_error)
    /\ UNCHANGED <<bound, inflight, aborted, sig, handler, signals, proc>>
    /\ UNCHANGED <<adapter_vars, surface_vars>>

\* main: run() returned Err, the error and its causes go to stderr.
MainReport ==
    /\ proc = "running" /\ rs_pc = "returned" /\ rs_result = "Err"
    /\ proc' = "reported"
    /\ UNCHANGED <<rs_pc, rs_result, rs_error, lstate, outcome, bound, inflight,
                   aborted, sig, handler, signals>>
    /\ UNCHANGED <<adapter_vars, surface_vars>>

\* main: std::process::exit(1) after the report, or main returns after Ok.
\* Connection tasks still running end with the process.
MainExit ==
    /\ rs_pc = "returned"
    /\ \/ proc = "reported" /\ proc' = "exit1"
       \/ proc = "running" /\ rs_result = "Ok" /\ proc' = "exit0"
    /\ aborted' = [l \in Listeners |-> aborted[l] + inflight[l]]
    /\ inflight' = [l \in Listeners |-> 0]
    /\ UNCHANGED <<rs_pc, rs_result, rs_error, lstate, outcome, bound, sig,
                   handler, signals>>
    /\ UNCHANGED <<adapter_vars, surface_vars>>

ServerInit ==
    /\ rs_pc = "entry"
    /\ rs_result = "Pending"
    /\ rs_error = "none"
    /\ lstate = [l \in Listeners |-> "Idle"]
    /\ outcome = [l \in Listeners |-> "none"]
    /\ bound = [l \in Listeners |-> FALSE]
    /\ inflight = [l \in Listeners |-> 0]
    /\ aborted = [l \in Listeners |-> 0]
    /\ sig = [l \in Listeners |-> "none"]
    /\ handler = FALSE
    /\ signals = 0
    /\ proc = "running"

AdapterIdle ==
    /\ calls = <<>>
    /\ ops = <<>>
    /\ last = [op |-> "none"]
    /\ fixture = [op |-> "none"]
    /\ script = <<>>

SurfaceIdle ==
    /\ api_calls = <<>>
    /\ api_ret = [op |-> "none"]
    /\ resp = [surface |-> "none"]
    /\ reqs = [l \in Listeners |-> <<>>]

Init == ServerInit /\ AdapterIdle /\ SurfaceIdle

Next ==
    \/ ParseHostFail
    \/ Startup
    \/ \E l \in Listeners : BindOk(l)
    \/ \E l \in Listeners : BindFail(l)
    \/ \E l \in Listeners : PollSignal(l)
    \/ \E l \in Listeners : Accept(l)
    \/ \E l \in Listeners : Complete(l)
    \/ Signal
    \/ \E l \in Listeners : BeginShutdown(l)
    \/ \E l \in Listeners : FinishShutdown(l)
    \/ MainReport
    \/ MainExit

Spec == Init /\ [][Next]_vars

\* The tokio runtime runs every task that is ready: a serve loop that has
\* seen its signal, a serve future whose connections are done, and (the
\* premise "every in-flight request completes") every connection task.
Fairness ==
    /\ \A l \in Listeners : WF_vars(BeginShutdown(l))
    /\ \A l \in Listeners : WF_vars(FinishShutdown(l))
    /\ \A l \in Listeners : WF_vars(Complete(l))

SpecFair == Init /\ [][Next]_vars /\ Fairness

(***************************************************************************)
(* Tool adapter: src/src/vm.rs                                             *)
(*                                                                         *)
(* Text that the code takes apart (stderr, the numeric strings of a disk   *)
(* entry) is a sequence of characters; names, states and releases, which   *)
(* the code only copies, are strings. A JSON value is the tree             *)
(* serde_json::Value holds; an object is the sequence of its <<key, value>>*)
(* entries in the map's iteration order.                                   *)
(***************************************************************************)
MaxCalls == 2
MaxList == 2

Names == {"agent-1", "my vm"}

None == [some |-> FALSE]
Some(x) == [some |-> TRUE, v |-> x]
Ok(x) == [ok |-> TRUE, v |-> x]
Err(e) == [ok |-> FALSE, e |-> e]

JStr(x) == [k |-> "str", s |-> x]
JNum(x) == [k |-> "num", n |-> x]
JFloat == [k |-> "float"]
JArr(x) == [k |-> "arr", a |-> x]
JObj(x) == [k |-> "obj", o |-> x]

\* Option::and_then and Option::map
and_then(opt, F(_)) == IF opt.some THEN F(opt.v) ELSE None
map(opt, F(_)) == IF opt.some THEN Some(F(opt.v)) ELSE None

\* serde_json Map::get
map_get(o, key) ==
    IF \E i \in DOMAIN o : o[i][1] = key
    THEN Some(o[CHOOSE i \in DOMAIN o : o[i][1] = key][2])
    ELSE None

\* serde_json Value::get(&str): None unless the value is an object with the key
get(v, key) == IF v.k = "obj" THEN map_get(v.o, key) ELSE None

as_str(v) == IF v.k = "str" THEN Some(v.s) ELSE None
as_array(v) == IF v.k = "arr" THEN Some(v.a) ELSE None
as_object(v) == IF v.k = "obj" THEN Some(v.o) ELSE None
as_u64(v) == IF v.k = "num" /\ v.n >= 0 THEN Some(v.n) ELSE None

\* CommandOutput, src/src/vm.rs lines 111-126
CommandOutput(code, out, err) ==
    [status_code |-> code, stdout |-> out, stderr |-> err]

EmptyText == [t |-> "empty"]
Garbage == [t |-> "garbage"]
JsonText(v) == [t |-> "json", v |-> v]

success(out) == CommandOutput(0, out, <<>>)

\* serde_json::from_str: a Value, or an error for text that is not JSON
from_str(text) == IF text.t = "json" THEN Ok(text.v) ELSE Err("EOF while parsing")

\* str::trim, in two halves
Whitespace == {" ", "\n", "\t"}

RECURSIVE trim_start(_)
trim_start(s) ==
    IF s # <<>> /\ Head(s) \in Whitespace THEN trim_start(Tail(s)) ELSE s

RECURSIVE trim_end(_)
trim_end(s) ==
    IF s # <<>> /\ s[Len(s)] \in Whitespace
    THEN trim_end(SubSeq(s, 1, Len(s) - 1)) ELSE s

\* stderr kept as captured
trim_none(s) == s

trim(s) == trim_end(trim_start(s))

\* VmError, src/src/vm.rs lines 81-98
CommandIo(detail) == [kind |-> "CommandIo", detail |-> detail]
CommandFailed(action, code, err) ==
    [kind |-> "CommandFailed", action |-> action, status_code |-> code,
     stderr |-> err]
InvalidOutput(action, reason) ==
    [kind |-> "InvalidOutput", action |-> action, reason |-> reason]

\* The #[error(..)] texts of VmError, as the sequence of their pieces
Display(e) ==
    CASE e.kind = "NotImplemented" -> <<"VM operation not implemented">>
      [] e.kind = "CommandIo" -> <<"failed to execute command: ", e.detail>>
      [] e.kind = "CommandFailed" ->
            <<"multipass ", e.action, " failed with status ",
              ToString(e.status_code), ": ">> \o e.stderr
      [] e.kind = "InvalidOutput" ->
            <<"invalid multipass output for ", e.action, ": ", e.reason>>

\* a run_command that takes any output on stderr for a failure
run_command_stderr_fails(action, x) ==
    IF ~x.ok THEN Err(CommandIo(x.e))
    ELSE IF x.v.status_code # 0 \/ trim(x.v.stderr) # <<>>
         THEN Err(CommandFailed(action, x.v.status_code, trim(x.v.stderr)))
         ELSE Ok(x.v)

\* a run_command that leaves the exit status to its caller
run_command_unchecked(action, x) ==
    IF ~x.ok THEN Err(CommandIo(x.e)) ELSE Ok(x.v)

\* MultipassCli::run_command on what the executor returned: x is
\* Ok(CommandOutput) or Err(detail)
run_command(action, x) ==
    IF ~x.ok THEN Err(CommandIo(x.e))
    ELSE IF x.v.status_code # 0
         THEN Err(CommandFailed(action, x.v.status_code, trim(x.v.stderr)))
         ELSE Ok(x.v)

\* the action name parse_status_output puts in its errors (under "info")
StatusAction_Info == "info"

StatusAction == "status"

\* s.parse::<u64>() on a string of characters: digits only, an optional
\* leading "+", at least one digit
Digits == <<"0", "1", "2", "3", "4", "5", "6", "7", "8", "9">>

DigitValue(c) == (CHOOSE i \in DOMAIN Digits : Digits[i] = c) - 1

RECURSIVE digits_value(_, _)
digits_value(s, acc) ==
    IF s = <<>> THEN acc
    ELSE digits_value(Tail(s), acc * 10 + DigitValue(Head(s)))

\* a parse that reads a string it cannot parse as 0
parse_u64_or_zero(s) ==
    LET body == IF s # <<>> /\ Head(s) = "+" THEN Tail(s) ELSE s IN
    IF body # <<>> /\ \A i \in DOMAIN body : \E j \in DOMAIN Digits : Digits[j] = body[i]
    THEN Some(digits_value(body, 0)) ELSE Some(0)

parse_u64(s) ==
    LET body == IF s # <<>> /\ Head(s) = "+" THEN Tail(s) ELSE s IN
    IF body # <<>> /\ \A i \in DOMAIN body : \E j \in DOMAIN Digits : Digits[j] = body[i]
    THEN Some(digits_value(body, 0)) ELSE None

\* arr.iter().filter_map(Value::as_str).map(String::from).collect()
RECURSIVE filter_strings(_)
filter_strings(arr) ==
    IF arr = <<>> THEN <<>>
    ELSE IF Head(arr).k = "str"
         THEN <<Head(arr).s>> \o filter_strings(Tail(arr))
         ELSE filter_strings(Tail(arr))

\* vm.get("ipv4").and_then(Value::as_array).map(..)
ipv4_of(vm) ==
    map(and_then(get(vm, "ipv4"), LAMBDA x : as_array(x)),
        LAMBDA arr : filter_strings(arr))

\* vm.get(key).and_then(Value::as_str).map(String::from)
string_field(vm, key) == and_then(get(vm, key), LAMBDA x : as_str(x))

\* vm.get("memory").and_then(|m| m.get(key)).and_then(Value::as_u64)
memory_field(vm, key) ==
    and_then(and_then(get(vm, "memory"), LAMBDA m : get(m, key)),
             LAMBDA x : as_u64(x))

\* disks.values().next()
first_disk(vm) ==
    and_then(and_then(get(vm, "disks"), LAMBDA x : as_object(x)),
             LAMBDA disks : IF disks = <<>> THEN None ELSE Some(disks[1][2]))

\* disk.get(key).and_then(|v| v.as_str()).and_then(|s| s.parse::<u64>().ok())
disk_field(vm, key) ==
    and_then(first_disk(vm),
             LAMBDA disk : and_then(and_then(get(disk, key), LAMBDA x : as_str(x)),
                                    LAMBDA str : parse_u64(str)))

\* MultipassCli::parse_status_output
parse_status_output(name, output) ==
    LET value == from_str(output)
        info == and_then(get(value.v, "info"), LAMBDA x : as_object(x))
        vm == map_get(info.v, name)
        state == and_then(get(vm.v, "state"), LAMBDA x : as_str(x))
    IN
    IF ~value.ok THEN Err(InvalidOutput(StatusAction, value.e))
    ELSE IF ~info.some
         THEN Err(InvalidOutput(StatusAction, "missing info object"))
    ELSE IF ~vm.some
         THEN Err(InvalidOutput(StatusAction, <<"missing VM entry for ", name>>))
    ELSE IF ~state.some
         THEN Err(InvalidOutput(StatusAction, "missing VM state"))
    ELSE Ok([name |-> name,
             state |-> state.v,
             ipv4 |-> ipv4_of(vm.v),
             release |-> string_field(vm.v, "release"),
             image_release |-> string_field(vm.v, "image_release"),
             cpu_count |-> string_field(vm.v, "cpu_count"),
             memory_total |-> memory_field(vm.v, "total"),
             memory_used |-> memory_field(vm.v, "used"),
             disk_total |-> disk_field(vm.v, "total"),
             disk_used |-> disk_field(vm.v, "used")])

\* one turn of the for loop of parse_list_output: Ok(VmSummary) or the error
\* `?` returns
list_item(item) ==
    LET name == and_then(get(item, "name"), LAMBDA x : as_str(x))
        state == and_then(get(item, "state"), LAMBDA x : as_str(x))
    IN
    IF ~name.some THEN Err(InvalidOutput("list", "missing VM name"))
    ELSE IF ~state.some THEN Err(InvalidOutput("list", "missing VM state"))
    ELSE Ok([name |-> name.v,
             state |-> state.v,
             ipv4 |-> ipv4_of(item),
             release |-> string_field(item, "release")])

\* a loop that leaves out the elements it cannot read
RECURSIVE list_items_skipping(_, _)
list_items_skipping(list, vms) ==
    IF list = <<>> THEN Ok(vms)
    ELSE LET r == list_item(Head(list)) IN
         IF ~r.ok THEN list_items_skipping(Tail(list), vms)
         ELSE list_items_skipping(Tail(list), Append(vms, r.v))

\* the for loop of parse_list_output (lines 294-331)
RECURSIVE list_items(_, _)
list_items(list, vms) ==
    IF list = <<>> THEN Ok(vms)
    ELSE LET r == list_item(Head(list)) IN
         IF ~r.ok THEN r
         ELSE list_items(Tail(list), Append(vms, r.v))

\* MultipassCli::parse_list_output
parse_list_output(output) ==
    LET value == from_str(output)
        list == and_then(get(value.v, "list"), LAMBDA x : as_array(x))
    IN
    IF ~value.ok THEN Err(InvalidOutput("list", value.e))
    ELSE IF ~list.some THEN Err(InvalidOutput("list", "missing list array"))
    ELSE list_items(list.v, <<>>)

\* The argument vectors, impl Multipass for MultipassCli (lines 340-394)
launch_args_positional(name) == <<"launch", name>>

launch_args(name) == <<"launch", "--name", name>>
start_args(name) == <<"start", name>>
stop_args(name) == <<"stop", name>>
restart_args(name) == <<"restart", name>>
delete_args(name) == <<"delete", name, "--purge">>
info_args(name) == <<"info", name, "--format", "json">>
list_args == <<"list", "--format", "json">>

\* self.executor.run("multipass", &args) as the recording executor of
\* tests/multipass_adapter.rs sees it, and what the operation then returns
Invoke(op, name, args, x, res) ==
    /\ Len(calls) < MaxCalls
    /\ calls' = Append(calls, <<"multipass">> \o args)
    /\ ops' = Append(ops, [op |-> op, name |-> name])
    /\ last' = [op |-> op, name |-> name, exec |-> x, res |-> res]
    /\ UNCHANGED server_vars

\* launch, start, stop, restart, delete: run_command(..).await?; Ok(())
unit_result(action, x) ==
    LET r == run_command(action, x) IN IF r.ok THEN Ok("()") ELSE r

launch(name, x) ==
    Invoke("launch", name, launch_args(name), x, unit_result("launch", x))
start(name, x) ==
    Invoke("start", name, start_args(name), x, unit_result("start", x))
stop(name, x) ==
    Invoke("stop", name, stop_args(name), x, unit_result("stop", x))
restart(name, x) ==
    Invoke("restart", name, restart_args(name), x, unit_result("restart", x))
delete(name, x) ==
    Invoke("delete", name, delete_args(name), x, unit_result("delete", x))

info_result(name, x) ==
    LET r == run_command("info", x) IN
    IF r.ok THEN parse_status_output(name, r.v.stdout) ELSE r

list_result(x) ==
    LET r == run_command("list", x) IN
    IF r.ok THEN parse_list_output(r.v.stdout) ELSE r

info(name, x) == Invoke("info", name, info_args(name), x, info_result(name, x))
list(x) == Invoke("list", "", list_args, x, list_result(x))

(***************************************************************************)
(* What the external tool prints: the outputs the executor is given to     *)
(* return, built like the fixtures of tests/multipass_adapter.rs.          *)
(* An entry of "info" is described by the variant of each of its fields.   *)
(***************************************************************************)
OptFields == {"ipv4", "release", "image_release", "cpu_count", "memory", "disks"}

FieldOrder ==
    <<"state", "ipv4", "release", "image_release", "cpu_count", "memory", "disks">>

Malformed(f) ==
    CASE f = "ipv4" -> {"notArray", "mixed", "empty"}
      [] f = "release" -> {"num"}
      [] f = "image_release" -> {"num"}
      [] f = "cpu_count" -> {"num"}
      [] f = "memory" -> {"totalOnly", "strTotal", "negUsed", "float", "notObject"}
      [] f = "disks" -> {"empty", "badTotal", "numTotal", "plusTotal", "two",
                         "firstEmpty", "notObject"}

DiskJson(total, used) == JObj(<< <<"total", total>>, <<"used", used>> >>)

Ipv4Json(variant) ==
    CASE variant = "good" -> JArr(<<JStr("10.0.0.1"), JStr("10.0.0.2")>>)
      [] variant = "notArray" -> JStr("10.0.0.1")
      [] variant = "mixed" -> JArr(<<JStr("10.0.0.1"), JNum(7), JStr("10.0.0.2")>>)
      [] variant = "empty" -> JArr(<<>>)

MemoryJson(variant) ==
    CASE variant = "good" ->
            JObj(<< <<"total", JNum(2048)>>, <<"used", JNum(1024)>> >>)
      [] variant = "totalOnly" -> JObj(<< <<"total", JNum(2048)>> >>)
      [] variant = "strTotal" ->
            JObj(<< <<"total", JStr("2048")>>, <<"used", JNum(1024)>> >>)
      [] variant = "negUsed" ->
            JObj(<< <<"total", JNum(2048)>>, <<"used", JNum(-1)>> >>)
      [] variant = "float" ->
            JObj(<< <<"total", JFloat>>, <<"used", JNum(1024)>> >>)
      [] variant = "notObject" -> JNum(2048)

DisksJson(variant) ==
    CASE variant = "good" ->
            JObj(<< <<"sda1", DiskJson(JStr(<<"1", "0", "0">>), JStr(<<"5", "0">>))>> >>)
      [] variant = "empty" -> JObj(<<>>)
      [] variant = "badTotal" ->
            JObj(<< <<"sda1", DiskJson(JStr(<<"1", "0", "G">>), JStr(<<"5", "0">>))>> >>)
      [] variant = "numTotal" ->
            JObj(<< <<"sda1", DiskJson(JNum(100), JStr(<<"5", "0">>))>> >>)
      [] variant = "plusTotal" ->
            JObj(<< <<"sda1", DiskJson(JStr(<<"+", "7">>), JStr(<<" ", "5">>))>> >>)
      [] variant = "two" ->
            JObj(<< <<"sda1", DiskJson(JStr(<<"1", "0", "0">>), JStr(<<"5", "0">>))>>,
                    <<"sdb", DiskJson(JStr(<<"7">>), JStr(<<"3">>))>> >>)
      [] variant = "firstEmpty" ->
            JObj(<< <<"sda1", JObj(<<>>)>>,
                    <<"sdb", DiskJson(JStr(<<"7">>), JStr(<<"3">>))>> >>)
      [] variant = "notObject" -> JArr(<<>>)

FieldJson(f, variant) ==
    CASE f = "state" -> (IF variant = "str" THEN JStr("Running") ELSE JNum(1))
      [] f = "ipv4" -> Ipv4Json(variant)
      [] f = "release" -> (IF variant = "good" THEN JStr("22.04") ELSE JNum(22))
      [] f = "image_release" ->
            (IF variant = "good" THEN JStr("22.04 LTS") ELSE JNum(22))
      [] f = "cpu_count" -> (IF variant = "good" THEN JStr("2") ELSE JNum(2))
      [] f = "memory" -> MemoryJson(variant)
      [] f = "disks" -> DisksJson(variant)

RECURSIVE EntryPairs(_, _)
EntryPairs(d, fields) ==
    IF fields = <<>> THEN <<>>
    ELSE (IF d[Head(fields)] = "absent" THEN <<>>
          ELSE << <<Head(fields), FieldJson(Head(fields), d[Head(fields)])>> >>)
         \o EntryPairs(d, Tail(fields))

AllAbsent == [f \in OptFields |-> "absent"] @@ ("state" :> "str")
AllGood == [f \in OptFields |-> "good"] @@ ("state" :> "str")

EntryDescs ==
    { p @@ ("state" :> "str") : p \in [OptFields -> {"absent", "good"}] }
    \cup UNION { { [base EXCEPT ![f] = m] :
                      base \in {AllAbsent, AllGood}, m \in Malformed(f) } :
                    f \in OptFields }
    \cup { [base EXCEPT !["state"] = m] :
             base \in {AllAbsent, AllGood}, m \in {"absent", "num"} }

\* The fixtures hold the entry of "agent-1", after the entry of another VM.
FixtureName == "agent-1"

InfoJson(shape, d) ==
    CASE shape = "entry" ->
            JsonText(JObj(<< <<"errors", JArr(<<>>)>>,
                             <<"info", JObj(<< <<"agent-0", JObj(<< <<"state", JStr("Stopped")>> >>)>>,
                                               <<FixtureName, JObj(EntryPairs(d, FieldOrder))>> >>)>> >>))
      [] shape = "entryNotObject" ->
            JsonText(JObj(<< <<"info", JObj(<< <<FixtureName, JStr("Running")>> >>)>> >>))
      [] shape = "infoNotObject" ->
            JsonText(JObj(<< <<"info", JArr(<<>>)>> >>))
      [] shape = "noInfo" -> JsonText(JObj(<< <<"errors", JArr(<<>>)>> >>))
      [] shape = "garbage" -> Garbage

ElemKinds ==
    {"minimal", "full", "noName", "nameNum", "noState", "stateNum", "notObject"}

GoodKinds == {"minimal", "full"}

ElemJson(kind) ==
    CASE kind = "minimal" ->
            JObj(<< <<"name", JStr("agent-1")>>, <<"state", JStr("Running")>> >>)
      [] kind = "full" ->
            JObj(<< <<"ipv4", JArr(<<JStr("10.0.0.2"), JNum(7)>>)>>,
                    <<"name", JStr("agent-2")>>,
                    <<"release", JStr("22.04")>>,
                    <<"state", JStr("Stopped")>> >>)
      [] kind = "noName" -> JObj(<< <<"state", JStr("Running")>> >>)
      [] kind = "nameNum" ->
            JObj(<< <<"name", JNum(1)>>, <<"state", JStr("Running")>> >>)
      [] kind = "noState" -> JObj(<< <<"name", JStr("agent-3")>> >>)
      [] kind = "stateNum" ->
            JObj(<< <<"name", JStr("agent-3")>>, <<"state", JNum(0)>> >>)
      [] kind = "notObject" -> JStr("agent-3")

ListJson(shape, elems) ==
    CASE shape = "list" ->
            JsonText(JObj(<< <<"errors", JArr(<<>>)>>,
                             <<"list", JArr([i \in DOMAIN elems |-> ElemJson(elems[i])])>> >>))
      [] shape = "listNotArray" ->
            JsonText(JObj(<< <<"list", JObj(<<>>)>> >>))
      [] shape = "noList" -> JsonText(JObj(<< <<"errors", JArr(<<>>)>> >>))
      [] shape = "garbage" -> Garbage

ElemSeqs == UNION { [1..n -> ElemKinds] : n \in 0..MaxList }

\* A fixture: the output scripted for info or for list, after `prefix`
\* outputs CommandOutput::success("") scripted for the calls before it.
Fixtures ==
    { [op |-> "info", shape |-> "entry", d |-> d, elems |-> <<>>, prefix |-> n] :
        d \in EntryDescs, n \in {0, 1} }
    \cup { [op |-> "info", shape |-> sh, d |-> AllAbsent, elems |-> <<>>, prefix |-> n] :
        sh \in {"entryNotObject", "infoNotObject", "noInfo", "garbage"}, n \in {0, 1} }
    \cup { [op |-> "list", shape |-> "list", d |-> AllAbsent, elems |-> e, prefix |-> n] :
        e \in ElemSeqs, n \in {0, 1} }
    \cup { [op |-> "list", shape |-> sh, d |-> AllAbsent, elems |-> <<>>, prefix |-> n] :
        sh \in {"listNotArray", "noList", "garbage"}, n \in {0, 1} }

FixtureText(fx) ==
    IF fx.op = "info" THEN InfoJson(fx.shape, fx.d) ELSE ListJson(fx.shape, fx.elems)

ScriptOf(fx) ==
    [i \in 1..fx.prefix |-> success(EmptyText)] \o <<success(FixtureText(fx))>>

\* FakeExecutor::run: the next scripted output, or an error when none is left
FakeRun == IF script = <<>> THEN Err("no fake output available") ELSE Ok(Head(script))

\* What a process can end with, and what it can have written to stderr
StatusCodes == {0, 1, -1}
Stderrs ==
    { <<>>, <<" ", "\n">>, <<"x">>, <<" ", "x">>, <<"x", "\n">>,
      <<"x", " ", "y">>, <<"\t", "x", " ", "y", "\n">> }

\* TokioCommandExecutor::run: an error when the program cannot be spawned or
\* awaited, otherwise the exit code (-1 without one), stdout and stderr
ExecResults(stdouts) ==
    { Err("No such file or directory") }
    \cup { Ok(CommandOutput(c, o, e)) : c \in StatusCodes, o \in stdouts, e \in Stderrs }

InfoStdouts == { EmptyText, InfoJson("entry", AllAbsent) }
ListStdouts == { EmptyText, ListJson("list", <<"minimal", "full">>) }

(***************************************************************************)
(* SpecAdapter: callers issue MultipassCli operations; the executor's      *)
(* result is chosen when it is called.                                     *)
(***************************************************************************)
Launch == \E n \in Names, x \in ExecResults({EmptyText}) :
              launch(n, x) /\ UNCHANGED <<fixture, script, surface_vars>>
Start == \E n \in Names, x \in ExecResults({EmptyText}) :
              start(n, x) /\ UNCHANGED <<fixture, script, surface_vars>>
Stop == \E n \in Names, x \in ExecResults({EmptyText}) :
              stop(n, x) /\ UNCHANGED <<fixture, script, surface_vars>>
Restart == \E n \in Names, x \in ExecResults({EmptyText}) :
              restart(n, x) /\ UNCHANGED <<fixture, script, surface_vars>>
Delete == \E n \in Names, x \in ExecResults({EmptyText}) :
              delete(n, x) /\ UNCHANGED <<fixture, script, surface_vars>>
Info == \E n \in Names, x \in ExecResults(InfoStdouts) :
              info(n, x) /\ UNCHANGED <<fixture, script, surface_vars>>
List == \E x \in ExecResults(ListStdouts) :
              list(x) /\ UNCHANGED <<fixture, script, surface_vars>>

AdapterNext == Launch \/ Start \/ Stop \/ Restart \/ Delete \/ Info \/ List

SpecAdapter == Init /\ [][AdapterNext]_vars

(***************************************************************************)
(* SpecProcess: callers issue MultipassCli operations over                 *)
(* TokioCommandExecutor; what the spawned process does is chosen when it   *)
(* is run. A stream of the process is a text, followed or not by a byte    *)
(* that is not UTF-8.                                                      *)
(***************************************************************************)
\* String::from_utf8_lossy(..).to_string(): the text of a valid stream,
\* else the text with U+FFFD in place of the invalid byte
from_utf8_lossy(stream, replaced) == IF stream.invalid THEN replaced ELSE stream.text

\* an executor for which a non-zero exit is an error
TokioCommandExecutor_run_checking_exit(p) ==
    IF p.k # "exited" \/ p.code # Some(0) THEN Err("process failed")
    ELSE Ok(CommandOutput(0, from_utf8_lossy(p.stdout, Garbage),
                          from_utf8_lossy(p.stderr, Append(p.stderr.text, "U+FFFD"))))

\* TokioCommandExecutor::run: Command::output().await? fails when the
\* program cannot be spawned or its completion cannot be awaited
TokioCommandExecutor_run(p) ==
    CASE p.k = "spawn_error" -> Err("No such file or directory (os error 2)")
      [] p.k = "wait_error" -> Err("Interrupted system call (os error 4)")
      [] p.k = "exited" ->
            Ok(CommandOutput(IF p.code.some THEN p.code.v ELSE -1,
                             from_utf8_lossy(p.stdout, Garbage),
                             from_utf8_lossy(p.stderr, Append(p.stderr.text, "U+FFFD"))))

ProcessStdouts(verb) ==
    [ text : (CASE verb = "info" -> InfoStdouts
                [] verb = "list" -> ListStdouts
                [] OTHER -> { EmptyText }),
      invalid : BOOLEAN ]

ProcessStderrs ==
    { [text |-> <<>>, invalid |-> FALSE], [text |-> <<"x", "\n">>, invalid |-> FALSE],
      [text |-> <<"x">>, invalid |-> TRUE] }

\* what a process can do: not start, not be awaited, or end with an exit
\* code (None when a signal ended it) and its two streams
ProcessOutcomes(verb) ==
    { [k |-> "spawn_error"], [k |-> "wait_error"] }
    \cup [ k : {"exited"}, code : { Some(0), Some(1), None },
           stdout : ProcessStdouts(verb), stderr : ProcessStderrs ]

MultipassCli_op(verb, name, x) ==
    CASE verb = "launch" -> launch(name, x)
      [] verb = "start" -> start(name, x)
      [] verb = "stop" -> stop(name, x)
      [] verb = "restart" -> restart(name, x)
      [] verb = "delete" -> delete(name, x)
      [] verb = "info" -> info(name, x)
      [] verb = "list" -> list(x)

ProcessRun ==
    \E verb \in {"launch", "start", "stop", "restart", "delete", "info", "list"} :
        \E n \in (IF verb = "list" THEN {""} ELSE Names), p \in ProcessOutcomes(verb) :
            /\ MultipassCli_op(verb, n, TokioCommandExecutor_run(p))
            /\ fixture' = [op |-> "process", outcome |-> p]
            /\ UNCHANGED <<script, surface_vars>>

SpecProcess == Init /\ [][ProcessRun]_vars

(***************************************************************************)
(* SpecFixture: the executor is scripted from one fixture, and callers     *)
(* issue launch, info and list in any order.                               *)
(***************************************************************************)
Scripted == script' = (IF script = <<>> THEN script ELSE Tail(script)) /\ UNCHANGED <<fixture, surface_vars>>

LaunchScripted == \E n \in Names : launch(n, FakeRun) /\ Scripted
InfoScripted == \E n \in Names : info(n, FakeRun) /\ Scripted
ListScripted == list(FakeRun) /\ Scripted

FixtureInit ==
    /\ ServerInit
    /\ calls = <<>>
    /\ ops = <<>>
    /\ last = [op |-> "none"]
    /\ fixture \in Fixtures
    /\ script = ScriptOf(fixture)
    /\ SurfaceIdle

FixtureNext == LaunchScripted \/ InfoScripted \/ ListScripted

SpecFixture == FixtureInit /\ [][FixtureNext]_vars

(***************************************************************************)
(* Claims about the server runtime                                         *)
(***************************************************************************)
SpecEdges ==
    { <<"Idle", "Binding">>, <<"Binding", "Running">>, <<"Binding", "Stopped">>,
      <<"Running", "ShuttingDown">>, <<"ShuttingDown", "Stopped">> }

\* C1: if the API listener fails to bind, run_server's result is an error
\* (the API bind error), and in every state from there on, the report by main
\* included, the UI listener is stopped and accepts no connection.
C1_ApiBindFailStopsUi ==
    outcome["api"] = "err" =>
        /\ rs_pc = "returned" /\ rs_result = "Err"
        /\ rs_error = "failed to bind API server"
        /\ lstate["ui"] = "Stopped" /\ ~Accepting("ui")

\* C1 witness: the error is reported after the API bind failed while the UI
\* listener had been bound and serving.
C1_Witness ==
    /\ proc = "reported" /\ outcome["api"] = "err"
    /\ bound["ui"] /\ outcome["ui"] = "dropped"

\* C2 as stated: as soon as either listener has terminated, successfully or
\* with an error, run_server has stopped waiting and returned.
C2_FailFastEither ==
    (\E l \in Listeners : outcome[l] \in {"ok", "err"}) => rs_pc = "returned"

\* C2 amended: an error of either listener makes run_server return that error
\* at once; after a listener has terminated successfully run_server keeps
\* waiting for the other one, and it returns Ok only when both have
\* terminated successfully.
C2_FailFastOnErrorOnly ==
    /\ (\E l \in Listeners : outcome[l] = "err")
           => (rs_pc = "returned" /\ rs_result = "Err")
    /\ (\E l \in Listeners : outcome[l] = "ok" /\ outcome[Sibling(l)] = "none")
           => (rs_pc = "try_join" /\ rs_result = "Pending")
    /\ rs_result = "Ok" => \A l \in Listeners : outcome[l] = "ok"

\* C2 witness: the API listener has terminated successfully and run_server
\* is still waiting for the UI listener, which is serving.
C2_Witness ==
    /\ outcome["api"] = "ok" /\ lstate["ui"] = "Running"
    /\ rs_pc = "try_join"

BothSignalled == \A l \in Listeners : lstate[l] = "Running" /\ sig[l] = "fired"

\* C3: once both listeners are Running and both have received the
\* termination signal, a listener that is shutting down takes no new
\* connection, no request is cut off before run_server returns Ok, and (every
\* in-flight request completing) both listeners reach Stopped and run_server
\* returns Ok.
C3_GracefulShutdown ==
    /\ BothSignalled ~> (/\ rs_pc = "returned" /\ rs_result = "Ok"
                         /\ \A l \in Listeners : lstate[l] = "Stopped")
    /\ [][\A l \in Listeners :
            lstate[l] = "ShuttingDown" => inflight'[l] <= inflight[l]]_vars
    /\ [](rs_result = "Ok" =>
            \A l \in Listeners : inflight[l] = 0 /\ aborted[l] = 0)

\* C3 witness: after the signal reached both listeners, one is shutting down
\* and waits for a request in flight.
C3_Witness ==
    /\ \A l \in Listeners : sig[l] = "fired"
    /\ \E l \in Listeners : lstate[l] = "ShuttingDown" /\ inflight[l] > 0

\* C4 as stated: a listener only moves along the five edges, Binding->Stopped
\* only with its own bind error.
C4_OnlySpecEdges ==
    [][\A l \in Listeners :
         lstate'[l] # lstate[l] =>
            /\ <<lstate[l], lstate'[l]>> \in SpecEdges
            /\ (lstate[l] = "Binding" /\ lstate'[l] = "Stopped")
                   => outcome'[l] = "err"]_vars

\* C4 amended: a listener moves along the five edges, or, when its sibling's
\* bind fails, straight from Binding, Running or ShuttingDown to Stopped
\* because its future is dropped; it is Running only after its own bind
\* succeeded, and run_server returns Ok only if both listeners reached
\* Running.
C4_EdgesWithDrop ==
    /\ [][\A l \in Listeners :
            lstate'[l] # lstate[l] =>
               \/ /\ <<lstate[l], lstate'[l]>> \in SpecEdges
                  /\ outcome'[l] # "dropped"
                  /\ (lstate[l] = "Binding" /\ lstate'[l] = "Stopped")
                         => outcome'[l] = "err"
               \/ /\ lstate[l] \in {"Binding", "Running", "ShuttingDown"}
                  /\ lstate'[l] = "Stopped"
                  /\ outcome'[l] = "dropped"
                  /\ outcome[Sibling(l)] # "err"
                  /\ outcome'[Sibling(l)] = "err"]_vars
    /\ [](\A l \in Listeners :
            lstate[l] \in {"Running", "ShuttingDown"} => bound[l])
    /\ [](rs_result = "Ok" => \A l \in Listeners : bound[l])

\* C4 witness: a listener that was Running has been dropped to Stopped by its
\* sibling's bind error, and the process has exited with the error.
C4_Witness ==
    /\ proc = "exit1"
    /\ \E l \in Listeners :
          outcome[l] = "dropped" /\ bound[l] /\ outcome[Sibling(l)] = "err"

\* C5 as stated: no listener leaves Running or ShuttingDown for Stopped
\* while it still has requests in flight.
C5_StopsOnlyDrained ==
    [][\A l \in Listeners :
         (lstate[l] \in {"Running", "ShuttingDown"} /\ lstate'[l] = "Stopped")
             => inflight[l] = 0]_vars

\* C5 amended: a bind error of one listener stops its sibling at once, the
\* sibling's future being dropped without a ShuttingDown phase and without
\* waiting for its requests in flight; a listener that is not dropped reaches
\* Stopped from ShuttingDown only once its requests in flight have drained.
C5_DropOrDrain ==
    /\ [][\A l \in Listeners :
            (lstate[l] \in {"Running", "ShuttingDown"} /\ lstate'[l] = "Stopped")
               => \/ /\ lstate[l] = "ShuttingDown" /\ inflight[l] = 0
                     /\ outcome'[l] = "ok"
                  \/ /\ outcome'[l] = "dropped"
                     /\ outcome'[Sibling(l)] = "err"
                     /\ rs_result' = "Err"]_vars
    /\ [][\A l \in Listeners :
            (outcome[l] # "err" /\ outcome'[l] = "err")
               => lstate'[Sibling(l)] = "Stopped"]_vars

\* C5 witness: a listener that was serving has been dropped with a request
\* still in flight.
C5_Witness ==
    \E l \in Listeners :
        /\ outcome[l] = "dropped" /\ bound[l] /\ inflight[l] > 0
        /\ outcome[Sibling(l)] = "err"

(***************************************************************************)
(* Claims about the tool adapter                                           *)
(***************************************************************************)
\* t is s without its leading and trailing whitespace
IsTrimOf(t, s) ==
    /\ t # <<>> => (t[1] \notin Whitespace /\ t[Len(t)] \notin Whitespace)
    /\ \E i \in 0..Len(s) : \E j \in i..Len(s) :
          /\ SubSeq(s, i + 1, j) = t
          /\ \A k \in 1..i : s[k] \in Whitespace
          /\ \A k \in (j + 1)..Len(s) : s[k] \in Whitespace

\* part occurs in text
Contains(text, part) ==
    \E i \in 0..(Len(text) - Len(part)) : SubSeq(text, i + 1, i + Len(part)) = part

\* C6: whenever the executor returned an output with a non-zero status code,
\* the operation failed with CommandFailed carrying the operation's own action
\* name, that status code and the stderr without its surrounding whitespace,
\* and the error's text contains the action name and that stderr text.
C6_NonZeroExitIsCommandFailed ==
    (last.op # "none" /\ last.exec.ok /\ last.exec.v.status_code # 0) =>
        /\ ~last.res.ok
        /\ last.res.e.kind = "CommandFailed"
        /\ last.res.e.action = last.op
        /\ last.res.e.status_code = last.exec.v.status_code
        /\ IsTrimOf(last.res.e.stderr, last.exec.v.stderr)
        /\ Contains(Display(last.res.e), <<last.op>>)
        /\ Contains(Display(last.res.e), last.res.e.stderr)

\* C6 witness: info failed with status 1 and a stderr that needed trimming.
C6_Witness ==
    /\ last.op = "info" /\ last.exec.ok
    /\ last.exec.v.status_code = 1
    /\ last.exec.v.stderr = <<"\t", "x", " ", "y", "\n">>
    /\ last.res.e.stderr = <<"x", " ", "y">>
    /\ ~last.res.ok

\* the vector the claim gives for an operation, program first
ExpectedCall(o) ==
    CASE o.op = "launch" -> <<"multipass", "launch", "--name", o.name>>
      [] o.op \in {"start", "stop", "restart"} -> <<"multipass", o.op, o.name>>
      [] o.op = "delete" -> <<"multipass", "delete", o.name, "--purge">>
      [] o.op = "info" -> <<"multipass", "info", o.name, "--format", "json">>
      [] o.op = "list" -> <<"multipass", "list", "--format", "json">>

\* C7: after any sequence of operations, failed ones included, the
\* executor's call log holds one call per operation, in call order, each
\* "multipass" followed by the fixed vector of the verb with the name as one
\* unchanged argument.
C7_CallLogIsArgumentVectors ==
    /\ Len(calls) = Len(ops)
    /\ \A i \in DOMAIN ops : calls[i] = ExpectedCall(ops[i])

\* C7 witness: launch then info of a name with a space in it; the name is
\* one argument of each call.
C7_Witness ==
    /\ Len(ops) = 2
    /\ ops[1] = [op |-> "launch", name |-> "my vm"]
    /\ ops[2] = [op |-> "info", name |-> "my vm"]
    /\ Len(calls[1]) = 4 /\ calls[1][4] = "my vm"
    /\ Len(calls[2]) = 5 /\ calls[2][3] = "my vm"

\* the last call is the one that was given the fixture's output
LastGotFixture == last.op # "none" /\ Len(calls) = fixture.prefix + 1

\* the record the claim expects for an entry with a string state: what each
\* variant of a field provides
ExpectedInfo(d) ==
    [name |-> FixtureName,
     state |-> "Running",
     ipv4 |-> CASE d["ipv4"] \in {"good", "mixed"} -> Some(<<"10.0.0.1", "10.0.0.2">>)
                [] d["ipv4"] = "empty" -> Some(<<>>)
                [] OTHER -> None,
     release |-> IF d["release"] = "good" THEN Some("22.04") ELSE None,
     image_release |-> IF d["image_release"] = "good" THEN Some("22.04 LTS") ELSE None,
     cpu_count |-> IF d["cpu_count"] = "good" THEN Some("2") ELSE None,
     memory_total |-> IF d["memory"] \in {"good", "totalOnly", "negUsed"}
                      THEN Some(2048) ELSE None,
     memory_used |-> IF d["memory"] \in {"good", "strTotal", "float"}
                     THEN Some(1024) ELSE None,
     disk_total |-> CASE d["disks"] \in {"good", "two"} -> Some(100)
                      [] d["disks"] = "plusTotal" -> Some(7)
                      [] OTHER -> None,
     disk_used |-> IF d["disks"] \in {"good", "two", "badTotal", "numTotal"}
                   THEN Some(50) ELSE None]

\* C8: info of the name whose entry has a string "state" succeeds, whatever
\* optional fields the entry holds and also right after a launch, and the
\* record has that name and state and each optional field set exactly when
\* the entry provides it in its expected form (for the disk fields: the first
\* disk entry, as a numeric string), absent otherwise.
C8_InfoOptionalFields ==
    (/\ LastGotFixture /\ last.op = "info" /\ last.name = FixtureName
     /\ fixture.op = "info" /\ fixture.shape = "entry"
     /\ fixture.d["state"] = "str")
        => (last.res.ok /\ last.res.v = ExpectedInfo(fixture.d))

\* C8 witness: info right after launch, on an entry that has a state, a disk
\* total that is no number and no other optional field.
C8_Witness ==
    /\ LastGotFixture /\ fixture.prefix = 1
    /\ ops = <<[op |-> "launch", name |-> FixtureName],
               [op |-> "info", name |-> FixtureName]>>
    /\ fixture.op = "info" /\ fixture.shape = "entry"
    /\ fixture.d = [AllAbsent EXCEPT !["disks"] = "badTotal"]
    /\ last.res.ok

\* C9: info on a zero-exit output whose "info" object has no entry for the
\* requested name, or whose entry for it has no string "state", fails with
\* InvalidOutput of action "status" and returns no record.
C9_MissingStateOrEntry ==
    (/\ LastGotFixture /\ last.op = "info" /\ fixture.op = "info"
     /\ \/ /\ last.name # FixtureName
           /\ fixture.shape \in {"entry", "entryNotObject"}
        \/ /\ last.name = FixtureName
           /\ \/ fixture.shape = "entry" /\ fixture.d["state"] # "str"
              \/ fixture.shape = "entryNotObject")
        => /\ ~last.res.ok
           /\ last.res.e.kind = "InvalidOutput"
           /\ last.res.e.action = "status"

\* C9 witness: info of a name the output has no entry for.
C9_Witness ==
    /\ LastGotFixture /\ last.op = "info" /\ last.name = "my vm"
    /\ fixture.op = "info" /\ fixture.shape = "entry"
    /\ ~last.res.ok
    /\ last.res.e.reason = <<"missing VM entry for ", "my vm">>

\* the VmSummary the claim expects for a well-formed element
ExpectedSummary(kind) ==
    IF kind = "minimal"
    THEN [name |-> "agent-1", state |-> "Running", ipv4 |-> None, release |-> None]
    ELSE [name |-> "agent-2", state |-> "Stopped", ipv4 |-> Some(<<"10.0.0.2">>),
          release |-> Some("22.04")]

\* C10: list on an output with a "list" array returns one VmSummary per
\* element, in the array's order, when every element has a string "name" and
\* a string "state"; if any element lacks one, list fails with InvalidOutput
\* of action "list" and returns no list.
C10_ListAllOrNothing ==
    (/\ LastGotFixture /\ last.op = "list"
     /\ fixture.op = "list" /\ fixture.shape = "list")
        => IF \A i \in DOMAIN fixture.elems : fixture.elems[i] \in GoodKinds
           THEN /\ last.res.ok
                /\ last.res.v = [i \in DOMAIN fixture.elems |->
                                    ExpectedSummary(fixture.elems[i])]
           ELSE /\ ~last.res.ok
                /\ last.res.e.kind = "InvalidOutput"
                /\ last.res.e.action = "list"

\* C10 witness: the second of two elements has no state, and list failed.
C10_Witness ==
    /\ LastGotFixture /\ last.op = "list"
    /\ fixture.op = "list" /\ fixture.shape = "list"
    /\ fixture.elems = <<"minimal", "noState">>
    /\ ~last.res.ok

(***************************************************************************)
(* Control facade: src/src/cli.rs, impl VmApi for LocalVmApi               *)
(*                                                                         *)
(* An anyhow::Error made by with_context keeps the error it wraps as its   *)
(* source (downcast_ref::<VmError>() still finds it); its Display ("{}")   *)
(* is the context alone.                                                   *)
(***************************************************************************)
JNull == [k |-> "null"]
JBool(b) == [k |-> "bool", b |-> b]

\* a conversion that keeps a text and lets go of the error it came from
context_only(res, ctx) ==
    IF res.ok THEN res ELSE Err([context |-> ctx, source |-> [kind |-> "none"]])

\* anyhow::Context::with_context / context on a Result
with_context(res, ctx) ==
    IF res.ok THEN res ELSE Err([context |-> ctx, source |-> res.e])

\* format!("{}", e) of an anyhow::Error
ErrorText(e) == e.context

\* The call as a recording VmApi sees it, and what the operation returns:
\* the Multipass operation's result (last'.res) under the context.
Returned(op, name, ctx) ==
    /\ api_calls' = Append(api_calls, [op |-> op, name |-> name])
    /\ api_ret' = [op |-> op, name |-> name, res |-> with_context(last'.res, ctx)]
    /\ UNCHANGED <<fixture, script>>

LocalVmApi_launch(name, x) ==
    launch(name, x) /\ Returned("launch", name, <<"failed to launch VM ", name>>)
LocalVmApi_start(name, x) ==
    start(name, x) /\ Returned("start", name, <<"failed to start VM ", name>>)
LocalVmApi_stop(name, x) ==
    stop(name, x) /\ Returned("stop", name, <<"failed to stop VM ", name>>)
LocalVmApi_restart(name, x) ==
    restart(name, x) /\ Returned("restart", name, <<"failed to restart VM ", name>>)
LocalVmApi_delete(name, x) ==
    delete(name, x) /\ Returned("delete", name, <<"failed to delete VM ", name>>)
LocalVmApi_info(name, x) ==
    info(name, x) /\ Returned("info", name, <<"failed to get info for VM ", name>>)
LocalVmApi_list(x) ==
    list(x) /\ Returned("list", "", <<"failed to list VMs from multipass">>)

(***************************************************************************)
(* Result envelope: vm::handlers. Its source is not among the files of     *)
(* src/; server.rs (lines 121-201) shows its callers and the fields        *)
(* `success` and `message` of what it returns. Modelled from section 4.4   *)
(* of the specification: each handler invokes the facade operation of its  *)
(* verb and converts the outcome into the envelope.                        *)
(***************************************************************************)
HandlerResult(r) ==
    IF r.res.ok
    THEN [success |-> TRUE, message |-> <<"done: ", r.op, " ", r.name>>]
    ELSE [success |-> FALSE, message |-> ErrorText(r.res.e)]

handlers_launch_vm(name, x) == LocalVmApi_launch(name, x)
handlers_start_vm(name, x) == LocalVmApi_start(name, x)
handlers_stop_vm(name, x) == LocalVmApi_stop(name, x)
handlers_restart_vm(name, x) == LocalVmApi_restart(name, x)
handlers_delete_vm(name, x) == LocalVmApi_delete(name, x)

(***************************************************************************)
(* Primary HTTP surface: src/src/server.rs, create_api_router and its      *)
(* handlers. A request is answered in one step: the handler, the facade    *)
(* call it makes, the executor call under it and the response.             *)
(***************************************************************************)
NoBody == [k |-> "none"]
Response(status, body) == [status |-> status, body |-> body]

strings_json(v) == JArr([i \in DOMAIN v |-> JStr(v[i])])

\* #[derive(Serialize)] struct VmStatusDto (lines 37-47): its eight fields;
\* serde's Serialize for Option<T> without skip_serializing_if writes null
VmStatusDto_json(dto) ==
    LET opt_json(opt, F(_)) == IF opt.some THEN F(opt.v) ELSE JNull
    IN
    JObj(<< <<"name", JStr(dto.name)>>,
            <<"state", JStr(dto.state)>>,
            <<"ipv4", opt_json(dto.ipv4, strings_json)>>,
            <<"release", opt_json(dto.release, JStr)>>,
            <<"memory_total", opt_json(dto.memory_total, JNum)>>,
            <<"memory_used", opt_json(dto.memory_used, JNum)>>,
            <<"disk_total", opt_json(dto.disk_total, JNum)>>,
            <<"disk_used", opt_json(dto.disk_used, JNum)>> >>)

\* list_vms: VmStatusDto { name: vm.name, .., memory_total: None, .. }
summary_dto(vm) ==
    [name |-> vm.name, state |-> vm.state, ipv4 |-> vm.ipv4,
     release |-> vm.release, memory_total |-> None, memory_used |-> None,
     disk_total |-> None, disk_used |-> None]

\* get_vm_info: VmStatusDto { name: info.name, .., disk_used: info.disk_used }
info_dto(st) ==
    [name |-> st.name, state |-> st.state, ipv4 |-> st.ipv4,
     release |-> st.release, memory_total |-> st.memory_total,
     memory_used |-> st.memory_used, disk_total |-> st.disk_total,
     disk_used |-> st.disk_used]

ErrorBody(e) == JObj(<< <<"error", JStr(ErrorText(e))>> >>)

\* a list_vms that answers a failure with an empty array
list_vms_response_hiding(res) ==
    IF res.ok
    THEN Response(200, JArr([i \in DOMAIN res.v |-> VmStatusDto_json(summary_dto(res.v[i]))]))
    ELSE Response(200, JArr(<<>>))

\* list_vms: the match on state.vm_api.list().await
list_vms_response(res) ==
    IF res.ok
    THEN Response(200, JArr([i \in DOMAIN res.v |-> VmStatusDto_json(summary_dto(res.v[i]))]))
    ELSE Response(500, ErrorBody(res.e))

\* get_vm_info: the match on state.vm_api.info(&name).await
get_vm_info_response(res) ==
    IF res.ok
    THEN Response(200, VmStatusDto_json(info_dto(res.v)))
    ELSE Response(404, ErrorBody(res.e))

\* an envelope answered with the success status whatever it holds
envelope_response_always_ok(created, result) ==
    Response(created, JObj(<< <<"success", JBool(result.success)>>,
                              <<"message", JStr(result.message)>> >>))

\* launch_vm .. delete_vm: if result.success { .. } else { .. }
envelope_response(created, result) ==
    IF result.success
    THEN Response(created, JObj(<< <<"success", JBool(TRUE)>>,
                                   <<"message", JStr(result.message)>> >>))
    ELSE Response(500, JObj(<< <<"success", JBool(FALSE)>>,
                               <<"error", JStr(result.message)>> >>))

\* A request that calls no VmApi operation, and one that calls no Multipass
\* operation either: the logs stay as they are, and last and api_ret, which
\* hold what the request's own calls gave, hold none.
NoFacadeCall ==
    /\ api_ret' = [op |-> "none"]
    /\ UNCHANGED <<fixture, script, api_calls>>

NoInvocation ==
    /\ last' = [op |-> "none"]
    /\ NoFacadeCall
    /\ UNCHANGED <<server_vars, calls, ops>>

Answer(surface, route, name, r) ==
    /\ resp' = [surface |-> surface, route |-> route, name |-> name,
                status |-> r.status, body |-> r.body]
    /\ UNCHANGED reqs

health_check ==
    /\ Answer("http", "GET /health", "", Response(200, JObj(<< <<"status", JStr("ok")>> >>)))
    /\ NoInvocation

list_vms(x) ==
    /\ LocalVmApi_list(x)
    /\ Answer("http", "GET /vms", "", list_vms_response(api_ret'.res))

get_vm_info(name, x) ==
    /\ LocalVmApi_info(name, x)
    /\ Answer("http", "GET /vms/{name}", name, get_vm_info_response(api_ret'.res))

launch_vm(name, x) ==
    /\ handlers_launch_vm(name, x)
    /\ Answer("http", "POST /vms", name, envelope_response(201, HandlerResult(api_ret')))

start_vm(name, x) ==
    /\ handlers_start_vm(name, x)
    /\ Answer("http", "POST /vms/{name}/start", name,
              envelope_response(200, HandlerResult(api_ret')))

stop_vm(name, x) ==
    /\ handlers_stop_vm(name, x)
    /\ Answer("http", "POST /vms/{name}/stop", name,
              envelope_response(200, HandlerResult(api_ret')))

restart_vm(name, x) ==
    /\ handlers_restart_vm(name, x)
    /\ Answer("http", "POST /vms/{name}/restart", name,
              envelope_response(200, HandlerResult(api_ret')))

\* a DELETE handler that asks for a stop
delete_vm_stopping(name, x) ==
    /\ handlers_stop_vm(name, x)
    /\ Answer("http", "DELETE /vms/{name}", name,
              envelope_response(200, HandlerResult(api_ret')))

delete_vm(name, x) ==
    /\ handlers_delete_vm(name, x)
    /\ Answer("http", "DELETE /vms/{name}", name,
              envelope_response(200, HandlerResult(api_ret')))

(***************************************************************************)
(* The /v1/vm router: src/src/vm.rs, app and its handlers, which call the  *)
(* Multipass operations directly.                                          *)
(***************************************************************************)
\* #[derive(Serialize)] VmSummary: None is left out (lines 60-68)
VmSummary_json(vm) ==
    JObj(<< <<"name", JStr(vm.name)>>, <<"state", JStr(vm.state)>> >>
         \o (IF vm.ipv4.some THEN << <<"ipv4", strings_json(vm.ipv4.v)>> >> ELSE <<>>)
         \o (IF vm.release.some THEN << <<"release", JStr(vm.release.v)>> >> ELSE <<>>))

\* #[derive(Serialize)] VmStatusResponse: None is left out (lines 21-41)
VmStatusResponse_json(st) ==
    JObj(<< <<"name", JStr(st.name)>>, <<"state", JStr(st.state)>> >>
         \o (IF st.ipv4.some THEN << <<"ipv4", strings_json(st.ipv4.v)>> >> ELSE <<>>)
         \o (IF st.release.some THEN << <<"release", JStr(st.release.v)>> >> ELSE <<>>)
         \o (IF st.image_release.some
             THEN << <<"image_release", JStr(st.image_release.v)>> >> ELSE <<>>)
         \o (IF st.cpu_count.some
             THEN << <<"cpu_count", JStr(st.cpu_count.v)>> >> ELSE <<>>)
         \o (IF st.memory_total.some
             THEN << <<"memory_total", JNum(st.memory_total.v)>> >> ELSE <<>>)
         \o (IF st.memory_used.some
             THEN << <<"memory_used", JNum(st.memory_used.v)>> >> ELSE <<>>)
         \o (IF st.disk_total.some
             THEN << <<"disk_total", JNum(st.disk_total.v)>> >> ELSE <<>>)
         \o (IF st.disk_used.some
             THEN << <<"disk_used", JNum(st.disk_used.v)>> >> ELSE <<>>))

\* .map_err(|_| StatusCode::INTERNAL_SERVER_ERROR)?; Ok(..)
status_or_500(res, status, body) ==
    IF res.ok THEN Response(status, body) ELSE Response(500, NoBody)

spawn_vm(route, name, x) ==
    /\ launch(name, x)
    /\ Answer("v1", route, name, status_or_500(last'.res, 201, NoBody))
    /\ NoFacadeCall

vm_list_vms(route, x) ==
    /\ list(x)
    /\ Answer("v1", route, "",
              IF last'.res.ok
              THEN Response(200, JArr([i \in DOMAIN last'.res.v |->
                                          VmSummary_json(last'.res.v[i])]))
              ELSE Response(500, NoBody))
    /\ NoFacadeCall

get_vm_status(route, name, x) ==
    /\ info(name, x)
    /\ Answer("v1", route, name,
              IF last'.res.ok
              THEN Response(200, VmStatusResponse_json(last'.res.v))
              ELSE Response(500, NoBody))
    /\ NoFacadeCall

\* a DELETE handler that asks for the VM to be deleted
terminate_vm_deleting(route, name, x) ==
    /\ delete(name, x)
    /\ Answer("v1", route, name, status_or_500(last'.res, 204, NoBody))
    /\ NoFacadeCall

terminate_vm(route, name, x) ==
    /\ stop(name, x)
    /\ Answer("v1", route, name, status_or_500(last'.res, 204, NoBody))
    /\ NoFacadeCall

\* The route table of app: a request is its method and the path it matches
\* (slash: with the trailing slash).
V1Path(item, slash) ==
    IF item THEN (IF slash THEN "/v1/vm/{name}/" ELSE "/v1/vm/{name}")
    ELSE (IF slash THEN "/v1/vm/" ELSE "/v1/vm")

V1Requests ==
    { [method |-> m, item |-> FALSE, slash |-> sl] : m \in {"POST", "GET"}, sl \in BOOLEAN }
    \cup { [method |-> m, item |-> TRUE, slash |-> sl] : m \in {"GET", "DELETE"}, sl \in BOOLEAN }

V1Route(rq) == <<rq.method, V1Path(rq.item, rq.slash)>>

app(rq, name, x) ==
    CASE ~rq.item /\ rq.method = "POST" -> spawn_vm(V1Route(rq), name, x)
      [] ~rq.item /\ rq.method = "GET" -> vm_list_vms(V1Route(rq), x)
      [] rq.item /\ rq.method = "GET" -> get_vm_status(V1Route(rq), name, x)
      [] rq.item /\ rq.method = "DELETE" -> terminate_vm(V1Route(rq), name, x)

(***************************************************************************)
(* Interactive surface: src/src/cli.rs (resolve_vm_mode, the formatters,   *)
(* run_vm_subcommand) and the "vm" branch of run in src/src/main.rs.       *)
(* A text is the sequence of the pieces format! and join put together.     *)
(***************************************************************************)
\* [String]::join(sep) on texts
RECURSIVE join(_, _)
join(parts, sep) ==
    IF parts = <<>> THEN <<>>
    ELSE IF Len(parts) = 1 THEN parts[1]
    ELSE parts[1] \o <<sep>> \o join(Tail(parts), sep)

texts(strs) == [i \in DOMAIN strs |-> <<strs[i]>>]

\* Arg::new("mode").default_value("local"): what get_one("mode") gives
ModeArg(flag) == IF flag.some THEN flag ELSE Some("local")

\* a resolution that takes every mode for the local one
resolve_vm_mode_local(m) == Ok("Local")

resolve_vm_mode(m) ==
    LET mode == IF m.some THEN m.v ELSE "local" IN
    CASE mode = "local" -> Ok("Local")
      [] mode = "network" -> Ok("Network")
      [] OTHER -> Err([context |-> <<"unsupported vm mode: ", mode>>,
                       source |-> [kind |-> "none"]])

\* a summary without the is_empty test on the addresses
format_vm_summary_pushing_empty(vm) ==
    join(<< <<vm.name>>, <<vm.state>> >>
         \o (IF vm.ipv4.some
             THEN << join(texts(vm.ipv4.v), ",") >> ELSE <<>>)
         \o (IF vm.release.some THEN << <<vm.release.v>> >> ELSE <<>>),
         " | ")

format_vm_summary(vm) ==
    join(<< <<vm.name>>, <<vm.state>> >>
         \o (IF vm.ipv4.some /\ vm.ipv4.v # <<>>
             THEN << join(texts(vm.ipv4.v), ",") >> ELSE <<>>)
         \o (IF vm.release.some THEN << <<vm.release.v>> >> ELSE <<>>),
         " | ")

\* (used as f64 / total as f64 * 100.0) as u64. The quotient and the
\* product are each rounded to an f64: when used * 100 / total is a whole
\* number k, the product is k or just below k; these are the k's (up to
\* 400) whose product falls below. NaN casts to 0 and infinity to u64::MAX.
RoundsBelow ==
    {29, 57, 58, 113, 114, 115, 116, 201, 203, 205, 207, 226, 228, 230, 232,
     251, 253, 255}

\* used as f64 / total as f64 is the f64 nearest to the ratio: it depends on
\* the ratio alone, which is taken in lowest terms
RECURSIVE gcd(_, _)
gcd(a, b) == IF b = 0 THEN a ELSE gcd(b, a % b)

\* a percentage by integer arithmetic: used * 100 / total, truncated
percent_integer(used, total) ==
    IF total = 0
    THEN (IF used = 0 THEN "0" ELSE "18446744073709551615")
    ELSE LET g == gcd(used, total) IN
         ToString(((used \div g) * 100) \div (total \div g))

percent(used, total) ==
    IF total = 0
    THEN (IF used = 0 THEN "0" ELSE "18446744073709551615")
    ELSE LET g == gcd(used, total)
             u == used \div g
             t == total \div g
             k == (u * 100) \div t
         IN IF (u * 100) % t = 0 /\ k \in RoundsBelow
            THEN ToString(k - 1) ELSE ToString(k)

usage_line(label, unit, divisions, total, used) ==
    LET scale == IF divisions = 2 THEN 1024 * 1024 ELSE 1024 * 1024 * 1024 IN
    <<label, ToString(used \div scale), unit, " / ", ToString(total \div scale),
      unit, " (", percent(used, total), "%)">>

format_vm_info(st) ==
    << <<"Name:  ", st.name>>, <<"State: ", st.state>> >>
    \o (IF st.ipv4.some /\ st.ipv4.v # <<>>
        THEN << <<"IPv4:  ">> \o join(texts(st.ipv4.v), ", ") >> ELSE <<>>)
    \o (IF st.release.some THEN << <<"Release: ", st.release.v>> >> ELSE <<>>)
    \o (IF st.image_release.some
        THEN << <<"Image:   ", st.image_release.v>> >> ELSE <<>>)
    \o (IF st.cpu_count.some THEN << <<"CPUs:  ", st.cpu_count.v>> >> ELSE <<>>)
    \o (IF st.memory_total.some /\ st.memory_used.some
        THEN << usage_line("Memory: ", " MiB", 2, st.memory_total.v, st.memory_used.v) >>
        ELSE <<>>)
    \o (IF st.disk_total.some /\ st.disk_used.some
        THEN << usage_line("Disk:   ", " GiB", 3, st.disk_total.v, st.disk_used.v) >>
        ELSE <<>>)

\* a list arm without the is_empty test
list_lines_plain(vms) == [i \in DOMAIN vms |-> format_vm_summary(vms[i])]

\* the "list" arm of run_vm_subcommand (lines 261-271)
list_lines(vms) ==
    IF vms = <<>> THEN << <<"No VMs found">> >>
    ELSE [i \in DOMAIN vms |-> format_vm_summary(vms[i])]

\* what an arm of run_vm_subcommand returns after api.<verb>(..).await
subcommand_lines(verb, name, res) ==
    IF ~res.ok THEN res
    ELSE CASE verb = "launch" -> Ok(<< <<"launched ", name>> >>)
           [] verb = "start" -> Ok(<< <<"started ", name>> >>)
           [] verb = "stop" -> Ok(<< <<"stopped ", name>> >>)
           [] verb = "restart" -> Ok(<< <<"restarted ", name>> >>)
           [] verb = "delete" -> Ok(<< <<"deleted ", name>> >>)
           [] verb = "info" -> Ok(format_vm_info(res.v))
           [] verb = "list" -> Ok(list_lines(res.v))

\* main: the lines printed, or the error reported and exit(1)
Report(flag, verb, name, result) ==
    /\ resp' = [surface |-> "cli", mode |-> flag, verb |-> verb, name |-> name,
                result |-> result, exit |-> IF result.ok THEN 0 ELSE 1]
    /\ UNCHANGED reqs

\* a "restart" arm pasted from the "start" arm: it asks for a start
run_vm_subcommand_pasted(flag, verb, name, x) ==
    /\ CASE verb = "launch" -> LocalVmApi_launch(name, x)
         [] verb = "start" -> LocalVmApi_start(name, x)
         [] verb = "stop" -> LocalVmApi_stop(name, x)
         [] verb = "restart" -> LocalVmApi_start(name, x)
         [] verb = "delete" -> LocalVmApi_delete(name, x)
         [] verb = "info" -> LocalVmApi_info(name, x)
         [] verb = "list" -> LocalVmApi_list(x)
    /\ Report(flag, verb, name, subcommand_lines(verb, name, api_ret'.res))

run_vm_subcommand(flag, verb, name, x) ==
    /\ CASE verb = "launch" -> LocalVmApi_launch(name, x)
         [] verb = "start" -> LocalVmApi_start(name, x)
         [] verb = "stop" -> LocalVmApi_stop(name, x)
         [] verb = "restart" -> LocalVmApi_restart(name, x)
         [] verb = "delete" -> LocalVmApi_delete(name, x)
         [] verb = "info" -> LocalVmApi_info(name, x)
         [] verb = "list" -> LocalVmApi_list(x)
    /\ Report(flag, verb, name, subcommand_lines(verb, name, api_ret'.res))

\* run, Some(("vm", vm_matches)) (main.rs lines 51-63)
run_vm(flag, verb, name, x) ==
    LET mode == resolve_vm_mode(ModeArg(flag)) IN
    IF ~mode.ok
    THEN Report(flag, verb, name, mode) /\ NoInvocation
    ELSE IF mode.v = "Local"
    THEN run_vm_subcommand(flag, verb, name, x)
    ELSE Report(flag, verb, name,
                Err([context |-> <<"network mode is planned but not implemented yet">>,
                     source |-> [kind |-> "none"]]))
         /\ NoInvocation

(***************************************************************************)
(* SpecSurface: requests on the primary HTTP surface and on the            *)
(* interactive surface, each over the facade and the adapter, with the     *)
(* result of the executor chosen when it is called.                        *)
(***************************************************************************)
Verbs == {"launch", "start", "stop", "restart", "delete", "info", "list"}
Lifecycle == {"launch", "start", "stop", "restart", "delete"}

IpLess == [AllGood EXCEPT !["ipv4"] = "absent"]

StdoutsOf(verb) ==
    CASE verb = "info" ->
            { InfoJson("entry", AllGood), InfoJson("entry", AllAbsent),
              InfoJson("entry", IpLess), Garbage }
      [] verb = "list" ->
            { ListJson("list", <<>>), ListJson("list", <<"minimal", "full">>),
              ListJson("list", <<"full">>), Garbage }
      [] OTHER -> { EmptyText }

\* the executor's results: the program cannot be spawned, it exits with 0,
\* or it exits with 1 and a message on stderr
SurfaceExec(verb) ==
    { Err("No such file or directory") }
    \cup { Ok(CommandOutput(0, o, <<>>)) : o \in StdoutsOf(verb) }
    \cup { Ok(CommandOutput(1, EmptyText, <<"x", "\n">>)) }

NamesOf(verb) == IF verb = "list" THEN {""} ELSE Names

HealthCheck == health_check
ListVms == \E x \in SurfaceExec("list") : list_vms(x)
GetVmInfo == \E n \in Names, x \in SurfaceExec("info") : get_vm_info(n, x)
LaunchVm == \E n \in Names, x \in SurfaceExec("launch") : launch_vm(n, x)
StartVm == \E n \in Names, x \in SurfaceExec("start") : start_vm(n, x)
StopVm == \E n \in Names, x \in SurfaceExec("stop") : stop_vm(n, x)
RestartVm == \E n \in Names, x \in SurfaceExec("restart") : restart_vm(n, x)
DeleteVm == \E n \in Names, x \in SurfaceExec("delete") : delete_vm(n, x)

\* the Multipass operation a request of the /v1/vm router is for
V1Verb(rq) ==
    IF rq.item THEN (IF rq.method = "GET" THEN "info" ELSE "stop")
    ELSE (IF rq.method = "GET" THEN "list" ELSE "launch")

V1Request ==
    \E rq \in V1Requests :
        \E n \in NamesOf(V1Verb(rq)), x \in SurfaceExec(V1Verb(rq)) : app(rq, n, x)

ModeFlags == { None, Some("local"), Some("network") }

\* Under --mode network no executor is built: no result is drawn for it.
ExecOf(flag, verb) ==
    IF flag = Some("network") THEN { Err("no executor") } ELSE SurfaceExec(verb)

RunVm ==
    \E flag \in ModeFlags, verb \in Verbs :
        \E n \in NamesOf(verb), x \in ExecOf(flag, verb) : run_vm(flag, verb, n, x)

SurfaceNext ==
    \/ HealthCheck
    \/ ListVms
    \/ GetVmInfo
    \/ LaunchVm
    \/ StartVm
    \/ StopVm
    \/ RestartVm
    \/ DeleteVm
    \/ RunVm

SpecSurface == Init /\ [][SurfaceNext]_vars

\* SpecV1: requests on the /v1/vm router
SpecV1 == Init /\ [][V1Request]_vars

(***************************************************************************)
(* Claims about the control facade and the surfaces                        *)
(***************************************************************************)
\* the context the facade puts on a failure of each operation
ExpectedContext(c) ==
    CASE c.op = "launch" -> <<"failed to launch VM ", c.name>>
      [] c.op = "start" -> <<"failed to start VM ", c.name>>
      [] c.op = "stop" -> <<"failed to stop VM ", c.name>>
      [] c.op = "restart" -> <<"failed to restart VM ", c.name>>
      [] c.op = "delete" -> <<"failed to delete VM ", c.name>>
      [] c.op = "info" -> <<"failed to get info for VM ", c.name>>
      [] c.op = "list" -> <<"failed to list VMs from multipass">>

\* C11: a step in which a LocalVmApi operation is called adds exactly that
\* one call to the facade's log and exactly one Multipass operation, the same
\* operation with the same name, to the adapter's log (one executor call);
\* when the Multipass operation succeeded the facade returns its value
\* unchanged, and when it failed the facade returns an error with the
\* operation's context whose source is the adapter's error, kind and all.
C11_FacadeWrapsAdapter ==
    [][api_calls' # api_calls =>
         LET c == api_calls'[Len(api_calls')] IN
         /\ api_calls' = Append(api_calls, c)
         /\ ops' = Append(ops, c)
         /\ Len(calls') = Len(calls) + 1
         /\ api_ret'.op = c.op /\ api_ret'.name = c.name
         /\ last'.op = c.op /\ last'.name = c.name
         /\ last'.res.ok => api_ret'.res = last'.res
         /\ ~last'.res.ok =>
               /\ ~api_ret'.res.ok
               /\ api_ret'.res.e.context = ExpectedContext(c)
               /\ api_ret'.res.e.source = last'.res.e
               /\ api_ret'.res.e.source.kind \in
                      {"CommandIo", "CommandFailed", "InvalidOutput"}]_vars

\* C11 witness: a facade delete that failed because the tool exited with 1,
\* after one earlier call.
C11_Witness ==
    /\ Len(api_calls) = 2
    /\ api_calls[2] = [op |-> "delete", name |-> "my vm"]
    /\ ops[Len(ops)] = [op |-> "delete", name |-> "my vm"]
    /\ ~api_ret.res.ok
    /\ api_ret.res.e.context = <<"failed to delete VM ", "my vm">>
    /\ api_ret.res.e.source.kind = "CommandFailed"

\* what each surface makes of the outcome r of a facade call
IsSuccessStatus(status) == status \in 200..299

HttpAnswerOf(r) ==
    CASE r.op = "list" -> list_vms_response(r.res)
      [] r.op = "info" -> get_vm_info_response(r.res)
      [] r.op = "launch" -> envelope_response(201, HandlerResult(r))
      [] OTHER -> envelope_response(200, HandlerResult(r))

CliAnswerOf(r) == subcommand_lines(r.op, r.name, r.res)

\* C12: whenever a surface has answered a request through a facade call, it
\* reported success exactly when the facade call succeeded, and exactly when
\* the other surface reports success for that same outcome of that same
\* call: lines from the interactive surface against a 2xx status from the
\* HTTP surface, for the five lifecycle verbs, info and list.
C12_SurfacesAgree ==
    (api_ret.op # "none" /\ resp.surface \in {"cli", "http"}) =>
        /\ resp.surface = "cli" =>
              /\ resp.result.ok <=> api_ret.res.ok
              /\ resp.result.ok <=> IsSuccessStatus(HttpAnswerOf(api_ret).status)
        /\ resp.surface = "http" =>
              /\ IsSuccessStatus(resp.status) <=> api_ret.res.ok
              /\ IsSuccessStatus(resp.status) <=> CliAnswerOf(api_ret).ok

\* C12 witness: a failed list on the interactive surface, which the HTTP
\* surface answers with 500 for the same outcome.
C12_Witness ==
    /\ resp.surface = "cli" /\ resp.verb = "list"
    /\ api_ret.op = "list" /\ ~api_ret.res.ok
    /\ ~resp.result.ok
    /\ HttpAnswerOf(api_ret).status = 500

LifecycleRoutes ==
    {"POST /vms", "DELETE /vms/{name}", "POST /vms/{name}/start",
     "POST /vms/{name}/stop", "POST /vms/{name}/restart"}

\* C13: on the primary HTTP surface, a lifecycle request whose operation
\* succeeded is answered 201 (POST /vms) or 200 (DELETE, start, stop,
\* restart) with success:true and a message; one whose operation failed is
\* answered 500 with success:false and a non-empty error text; no other
\* status is answered.
C13_LifecycleStatuses ==
    (resp.surface = "http" /\ resp.route \in LifecycleRoutes) =>
        /\ resp.status \in {200, 201, 500}
        /\ last.res.ok =>
              /\ resp.status = (IF resp.route = "POST /vms" THEN 201 ELSE 200)
              /\ get(resp.body, "success") = Some(JBool(TRUE))
              /\ get(resp.body, "message").some
        /\ ~last.res.ok =>
              /\ resp.status = 500
              /\ get(resp.body, "success") = Some(JBool(FALSE))
              /\ get(resp.body, "error").some
              /\ get(resp.body, "error").v.k = "str"
              /\ get(resp.body, "error").v.s # <<>>

\* C13 witness: a DELETE answered 500 after the tool failed, and before it a
\* request that went through.
C13_Witness ==
    /\ resp.surface = "http" /\ resp.route = "DELETE /vms/{name}"
    /\ resp.status = 500
    /\ last.res.e.kind = "CommandFailed"
    /\ Len(calls) = 2

\* the tool knows no VM of that name: it refused the command, or the info
\* object it printed has no entry for the name
VmDoesNotExist(exec, name) ==
    /\ exec.ok
    /\ \/ exec.v.status_code # 0
       \/ LET value == from_str(exec.v.stdout)
              entries == and_then(get(value.v, "info"), LAMBDA x : as_object(x))
          IN value.ok /\ entries.some /\ ~map_get(entries.v, name).some

\* C14: on the primary HTTP surface a failed list and a failed info are
\* answered with a 5xx status and an error body, except that a failed info
\* may be answered 404, and only when the target VM does not exist.
C14_ListInfoFailuresAre5xx ==
    (resp.surface = "http" /\ resp.route \in {"GET /vms", "GET /vms/{name}"}
        /\ ~api_ret.res.ok) =>
        /\ get(resp.body, "error").some
        /\ \/ resp.status \in 500..599
           \/ /\ resp.route = "GET /vms/{name}"
              /\ resp.status = 404
              /\ VmDoesNotExist(last.exec, resp.name)

\* C15: a step that answers DELETE /vms/{name} on the primary HTTP surface
\* adds exactly one call to the facade's log, delete with that name (and so
\* no stop), and under it one Multipass delete.
C15_DeleteInvokesDelete ==
    [][(resp'.surface = "http" /\ resp'.route = "DELETE /vms/{name}") =>
          /\ api_calls' = Append(api_calls, [op |-> "delete", name |-> resp'.name])
          /\ ops' = Append(ops, [op |-> "delete", name |-> resp'.name])
          /\ calls' = Append(calls, <<"multipass", "delete", resp'.name, "--purge">>)]_vars

\* C15 witness: a DELETE that went through, after a stop of the same VM.
C15_Witness ==
    /\ resp.surface = "http" /\ resp.route = "DELETE /vms/{name}"
    /\ resp.status = 200 /\ resp.name = "agent-1"
    /\ api_calls = << [op |-> "stop", name |-> "agent-1"],
                      [op |-> "delete", name |-> "agent-1"] >>

\* the Multipass operation and the success status of each route of /v1/vm
V1Expected(route, name) ==
    CASE route[1] = "POST" /\ route[2] \in {"/v1/vm", "/v1/vm/"} ->
            [op |-> "launch", name |-> name, status |-> 201]
      [] route[1] = "GET" /\ route[2] \in {"/v1/vm", "/v1/vm/"} ->
            [op |-> "list", name |-> "", status |-> 200]
      [] route[1] = "GET" /\ route[2] \in {"/v1/vm/{name}", "/v1/vm/{name}/"} ->
            [op |-> "info", name |-> name, status |-> 200]
      [] route[1] = "DELETE" /\ route[2] \in {"/v1/vm/{name}", "/v1/vm/{name}/"} ->
            [op |-> "stop", name |-> name, status |-> 204]

\* C16: a step that answers a request on the /v1/vm router adds exactly one
\* Multipass operation to the adapter's log (one executor call) and calls no
\* facade operation: launch(name) for POST /v1/vm, list for GET /v1/vm/,
\* info(name) for GET /v1/vm/{name}/ and stop(name) for DELETE /v1/vm/{name},
\* the same with and without the trailing slash; the answer is 201, 200, 200
\* and 204 when that operation succeeded, and 500 when it failed.
C16_V1RoutesCallOnce ==
    [][resp'.surface = "v1" =>
          LET e == V1Expected(resp'.route, resp'.name) IN
          /\ ops' = Append(ops, [op |-> e.op, name |-> e.name])
          /\ Len(calls') = Len(calls) + 1
          /\ api_calls' = api_calls
          /\ resp'.status = (IF last'.res.ok THEN e.status ELSE 500)]_vars

\* C16 witness: DELETE /v1/vm/{name}/ answered 204 after a stop, following a
\* POST /v1/vm that launched the VM.
C16_Witness ==
    /\ resp.surface = "v1" /\ resp.route = <<"DELETE", "/v1/vm/{name}/">>
    /\ resp.status = 204
    /\ ops = << [op |-> "launch", name |-> "agent-1"],
                [op |-> "stop", name |-> "agent-1"] >>
    /\ api_calls = <<>>

RecordFields ==
    {"name", "state", "ipv4", "release", "image_release", "cpu_count",
     "memory_total", "memory_used", "disk_total", "disk_used"}

\* the JSON of the value v of field f of a VmStatusResponse
FieldValueJson(f, v) ==
    CASE f \in {"name", "state", "release", "image_release", "cpu_count"} -> JStr(v)
      [] f = "ipv4" -> strings_json(v)
      [] OTHER -> JNum(v)

\* C17: the object GET /vms/{name} answers with has the fields of
\* VmStatusResponse and no other: name and state with the record's values,
\* each optional field with the record's value when the record has one, and
\* no member at all (not a null) when the record has none.
C17_DtoMirrorsRecord ==
    (resp.surface = "http" /\ resp.route = "GET /vms/{name}" /\ api_ret.res.ok) =>
        LET st == api_ret.res.v IN
        /\ resp.body.k = "obj"
        /\ \A i \in DOMAIN resp.body.o : resp.body.o[i][1] \in RecordFields
        /\ \A f \in {"name", "state"} :
              get(resp.body, f) = Some(FieldValueJson(f, st[f]))
        /\ \A f \in RecordFields \ {"name", "state"} :
              IF st[f].some
              THEN get(resp.body, f) = Some(FieldValueJson(f, st[f].v))
              ELSE get(resp.body, f) = None

\* C18: a step that runs a vm subcommand with --mode network ends in an
\* error whose text says "not implemented yet" (and exit status 1), and adds
\* nothing to the facade's log, to the adapter's log or to the executor's
\* call log; a step that runs a vm subcommand without --mode takes the local
\* mode: it calls the facade operation of the subcommand.
C18_NetworkModeFails ==
    [][resp'.surface = "cli" =>
          /\ resp'.mode = Some("network") =>
                /\ ~resp'.result.ok
                /\ resp'.result.e.context =
                       <<"network mode is planned but not implemented yet">>
                /\ resp'.exit = 1
                /\ api_calls' = api_calls
                /\ ops' = ops
                /\ calls' = calls
          /\ resp'.mode = None =>
                api_calls' = Append(api_calls, [op |-> resp'.verb, name |-> resp'.name])]_vars

\* C18 witness: `vm --mode network delete agent-1` failed, after a local
\* subcommand that did call the tool.
C18_Witness ==
    /\ resp.surface = "cli" /\ resp.mode = Some("network")
    /\ resp.verb = "delete" /\ resp.name = "agent-1"
    /\ resp.exit = 1
    /\ Len(calls) = 1 /\ Len(api_calls) = 1

DoneWord(verb) ==
    CASE verb = "launch" -> "launched "
      [] verb = "start" -> "started "
      [] verb = "stop" -> "stopped "
      [] verb = "restart" -> "restarted "
      [] verb = "delete" -> "deleted "

\* C19: a step that runs launch, start, stop, restart or delete with name n
\* in local mode adds exactly one call to the facade's log, the one of that
\* verb with n, and when that call succeeded the subcommand returns exactly
\* one line, "launched n", "started n", "stopped n", "restarted n" or
\* "deleted n".
C19_LifecycleSubcommands ==
    [][(resp'.surface = "cli" /\ resp'.mode # Some("network")
           /\ resp'.verb \in Lifecycle) =>
          /\ api_calls' = Append(api_calls, [op |-> resp'.verb, name |-> resp'.name])
          /\ api_ret'.res.ok =>
                resp'.result = Ok(<< <<DoneWord(resp'.verb), resp'.name>> >>)]_vars

\* C19 witness: `vm restart "my vm"` returned the one line "restarted my vm".
C19_Witness ==
    /\ resp.surface = "cli" /\ resp.verb = "restart"
    /\ resp.result = Ok(<< <<"restarted ", "my vm">> >>)
    /\ api_calls[Len(api_calls)] = [op |-> "restart", name |-> "my vm"]

\* C20: when the facade's list succeeded, the interactive surface returns
\* the single line "No VMs found" for an empty result and GET /vms answers
\* 200 with the empty array; for a non-empty result the interactive surface
\* returns one line per VM and GET /vms one object per VM, in the facade's
\* order, each being that VM's (its name first in the line, its name and
\* state in the object).
C20_ListBothSurfaces ==
    (api_ret.op = "list" /\ api_ret.res.ok) =>
        LET vms == api_ret.res.v IN
        /\ resp.surface = "cli" =>
              /\ resp.result.ok
              /\ vms = <<>> => resp.result.v = << <<"No VMs found">> >>
              /\ vms # <<>> =>
                    /\ Len(resp.result.v) = Len(vms)
                    /\ \A i \in DOMAIN vms :
                          /\ resp.result.v[i][1] = vms[i].name
                          /\ resp.result.v[i] = format_vm_summary(vms[i])
        /\ resp.surface = "http" =>
              /\ resp.status = 200
              /\ resp.body.k = "arr"
              /\ Len(resp.body.a) = Len(vms)
              /\ \A i \in DOMAIN vms :
                    /\ get(resp.body.a[i], "name") = Some(JStr(vms[i].name))
                    /\ get(resp.body.a[i], "state") = Some(JStr(vms[i].state))

\* C20 witness: `vm list` returned "No VMs found" for the empty list.
C20_Witness ==
    /\ resp.surface = "cli" /\ resp.verb = "list"
    /\ api_ret.op = "list" /\ api_ret.res = Ok(<<>>)
    /\ resp.result = Ok(<< <<"No VMs found">> >>)

(***************************************************************************)
(* SpecFormat: the formatters of src/src/cli.rs applied to records. A      *)
(* step formats one record; resp holds the record and the text returned.   *)
(***************************************************************************)
\* the ipv4 fields a record can hold: None, or the addresses parsed from
\* the tool's array, which may be empty
Ipv4Fields ==
    { None, Some(<<>>), Some(<<"10.0.0.1">>), Some(<<"10.0.0.1", "10.0.0.2">>) }

VmSummaries ==
    [ name : Names, state : {"Running", "Stopped"}, ipv4 : Ipv4Fields,
      release : { None, Some("22.04") } ]

Formatted(fn, arg, out) ==
    /\ resp' = [surface |-> "format", fn |-> fn, arg |-> arg, out |-> out]
    /\ UNCHANGED <<server_vars, adapter_vars, api_calls, api_ret, reqs>>

FormatVmSummary ==
    \E vm \in VmSummaries : Formatted("format_vm_summary", vm, format_vm_summary(vm))

\* memory and disk fields: byte counts as (total, used), either absent
MiB == 1024 * 1024
GiB == 1024 * 1024 * 1024

BytePairs ==
    { <<100, 29>>, <<100, 50>>, <<3, 1>>, <<100, 250>>, <<200 * MiB, 58 * MiB>>,
      <<GiB, 512 * MiB>>, <<3 * MiB, 2 * MiB + 1>>, <<0, 0>>, <<0, 5>> }

UsageFields ==
    { <<None, None>>, <<Some(MiB), None>>, <<None, Some(MiB)>> }
    \cup { <<Some(p[1]), Some(p[2])>> : p \in BytePairs }

DiskFields ==
    { <<None, None>>, <<Some(GiB), Some(GiB)>>, <<Some(100), Some(57)>>,
      <<Some(GiB), Some(768 * MiB)>> }

VmStatusResponses ==
    { [ name |-> "agent-1", state |-> "Running", ipv4 |-> ip, release |-> rel,
        image_release |-> img, cpu_count |-> cpus,
        memory_total |-> mem[1], memory_used |-> mem[2],
        disk_total |-> disk[1], disk_used |-> disk[2] ] :
      ip \in { None, Some(<<>>), Some(<<"10.0.0.1", "10.0.0.2">>) },
      rel \in { None, Some("22.04") },
      img \in { None, Some("22.04 LTS") },
      cpus \in { None, Some("2") },
      mem \in UsageFields, disk \in DiskFields }

FormatVmInfo ==
    \E st \in VmStatusResponses : Formatted("format_vm_info", st, format_vm_info(st))

FormatNext ==
    \/ FormatVmSummary
    \/ FormatVmInfo

SpecFormat == Init /\ [][FormatNext]_vars

(***************************************************************************)
(* Claims about the formatters                                             *)
(***************************************************************************)
\* the texts between the occurrences of the delimiter sep in text
RECURSIVE SplitText(_, _)
SplitText(text, sep) ==
    IF \E i \in DOMAIN text : text[i] = sep
    THEN LET i == CHOOSE j \in DOMAIN text :
                     text[j] = sep /\ \A k \in 1..(j - 1) : text[k] # sep
         IN << SubSeq(text, 1, i - 1) >>
            \o SplitText(SubSeq(text, i + 1, Len(text)), sep)
    ELSE << text >>

\* the line is name, state, then the addresses joined by "," when shown,
\* then the release when shown, with " | " between them
SummaryLineIs(line, vm, ipv4_shown, release_shown) ==
    LET parts == SplitText(line, " | ") IN
    /\ Len(parts) = 2 + (IF ipv4_shown THEN 1 ELSE 0)
                      + (IF release_shown THEN 1 ELSE 0)
    /\ parts[1] = <<vm.name>>
    /\ parts[2] = <<vm.state>>
    /\ ipv4_shown =>
          /\ Len(parts[3]) = 2 * Len(vm.ipv4.v) - 1
          /\ \A i \in DOMAIN vm.ipv4.v : parts[3][2 * i - 1] = vm.ipv4.v[i]
          /\ \A i \in 1..(Len(vm.ipv4.v) - 1) : parts[3][2 * i] = ","
    /\ release_shown => parts[Len(parts)] = <<vm.release.v>>

\* C21 as stated: format_vm_summary renders name, state, the comma-joined
\* ipv4 list and the release, joined by " | " in that order, the ipv4 list
\* and the release being in the line if and only if the record holds them.
C21_FieldShownIffPresent ==
    (resp.surface = "format" /\ resp.fn = "format_vm_summary") =>
        SummaryLineIs(resp.out, resp.arg, resp.arg.ipv4.some, resp.arg.release.some)

\* C21 amended: format_vm_summary renders name, state, the comma-joined
\* ipv4 list and the release, joined by " | " in that order; the release
\* is in the line if and only if the record holds one, the ipv4 list if
\* and only if the record holds one that is not empty.
C21_FieldShownIffNonEmpty ==
    (resp.surface = "format" /\ resp.fn = "format_vm_summary") =>
        SummaryLineIs(resp.out, resp.arg,
                      resp.arg.ipv4.some /\ resp.arg.ipv4.v # <<>>,
                      resp.arg.release.some)

\* C21 witness: a record with an empty ipv4 list and a release was
\* rendered as name, state and release.
C21_Witness ==
    /\ resp.surface = "format" /\ resp.fn = "format_vm_summary"
    /\ resp.arg.ipv4 = Some(<<>>) /\ resp.arg.release = Some("22.04")
    /\ resp.out = <<resp.arg.name, " | ", resp.arg.state, " | ", "22.04">>

\* the lines of a rendering that begin with the label
LinesOf(lines, label) ==
    { i \in DOMAIN lines : lines[i] # <<>> /\ lines[i][1] = label }

\* "<label>U <unit> / T <unit> (P%)" with U and T the whole units of used
\* and total and P the integer truncation of used * 100 / total
UsageLineIs(line, label, unit, scale, total, used) ==
    line = <<label, ToString(used \div scale), unit, " / ",
             ToString(total \div scale), unit, " (",
             percent_integer(used, total), "%)">>

\* C22: format_vm_info renders the memory line as "Memory: U MiB / T MiB
\* (P%)" with U = used div 1024^2, T = total div 1024^2 and P the integer
\* truncation of used * 100 / total, and the disk line likewise in GiB, for
\* every used and total with total > 0.
C22_UsageLinesTruncate ==
    (resp.surface = "format" /\ resp.fn = "format_vm_info") =>
        LET st == resp.arg IN
        /\ (st.memory_total.some /\ st.memory_used.some /\ st.memory_total.v > 0) =>
              \E i \in LinesOf(resp.out, "Memory: ") :
                  UsageLineIs(resp.out[i], "Memory: ", " MiB", MiB,
                              st.memory_total.v, st.memory_used.v)
        /\ (st.disk_total.some /\ st.disk_used.some /\ st.disk_total.v > 0) =>
              \E i \in LinesOf(resp.out, "Disk:   ") :
                  UsageLineIs(resp.out[i], "Disk:   ", " GiB", GiB,
                              st.disk_total.v, st.disk_used.v)

(***************************************************************************)
(* Claims about the executor's results                                     *)
(***************************************************************************)
\* C27: whenever the executor returned status_code 0 with a non-empty
\* stderr, launch, start, stop, restart and delete succeeded, and info and
\* list returned what they return for the same stdout with an empty stderr.
C27_StderrOnSuccessIgnored ==
    (last.op # "none" /\ last.exec.ok /\ last.exec.v.status_code = 0
        /\ last.exec.v.stderr # <<>>) =>
        LET quiet == Ok([last.exec.v EXCEPT !.stderr = <<>>]) IN
        /\ last.op \in Lifecycle => last.res = Ok("()")
        /\ last.op = "info" => last.res = info_result(last.name, quiet)
        /\ last.op = "list" => last.res = list_result(quiet)

\* C27 witness: list exited with 0 and a warning on stderr, and returned
\* the two VMs of its stdout.
C27_Witness ==
    /\ last.op = "list" /\ last.exec.ok
    /\ last.exec.v.status_code = 0
    /\ last.exec.v.stderr = <<"x", " ", "y">>
    /\ last.res.ok /\ Len(last.res.v) = 2

\* C28: for info and list, a non-zero exit yields CommandFailed whatever
\* stdout holds, and InvalidOutput is returned only for an invocation that
\* exited with status 0.
C28_ExitCheckedBeforeParse ==
    (last.op \in {"info", "list"} /\ last.exec.ok) =>
        /\ last.exec.v.status_code # 0 =>
              (~last.res.ok /\ last.res.e.kind = "CommandFailed")
        /\ (~last.res.ok /\ last.res.e.kind = "InvalidOutput") =>
              last.exec.v.status_code = 0

\* C28 witness: info exited with 1 on a stdout that does not parse and
\* failed with CommandFailed.
C28_Witness ==
    /\ last.op = "info" /\ last.exec.ok
    /\ last.exec.v.status_code = 1 /\ last.exec.v.stdout = EmptyText
    /\ ~last.res.ok /\ last.res.e.kind = "CommandFailed"

\* C26: the executor fails only when the program could not be spawned or
\* awaited, and then the MultipassCli operation, whichever it is, fails
\* with CommandIo; a process that exited with a non-zero code is returned
\* as a CommandOutput with that code and its stdout and stderr as text (the
\* very text when the stream is UTF-8), and a process that ended without an
\* exit code as a CommandOutput with status_code -1.
C26_ExecutorFailsOnlyOnIo ==
    (fixture.op = "process" /\ last.op # "none") =>
        LET p == fixture.outcome IN
        /\ ~last.exec.ok <=> p.k \in {"spawn_error", "wait_error"}
        /\ ~last.exec.ok =>
              (~last.res.ok /\ last.res.e.kind = "CommandIo"
                 /\ last.res.e.detail = last.exec.e)
        /\ p.k = "exited" =>
              /\ last.exec.ok
              /\ p.code.some => last.exec.v.status_code = p.code.v
              /\ ~p.code.some => last.exec.v.status_code = -1
              /\ last.exec.v.stdout = from_utf8_lossy(p.stdout, Garbage)
              /\ ~p.stdout.invalid => last.exec.v.stdout = p.stdout.text
              /\ ~p.stderr.invalid => last.exec.v.stderr = p.stderr.text
              /\ SubSeq(last.exec.v.stderr, 1, Len(p.stderr.text)) = p.stderr.text

\* C26 witness: info ran a process that exited with 1, a stdout and a
\* stderr; the executor returned them with status_code 1.
C26_Witness ==
    /\ fixture.op = "process" /\ last.op = "info"
    /\ fixture.outcome.k = "exited" /\ fixture.outcome.code = Some(1)
    /\ fixture.outcome.stderr.text = <<"x", "\n">>
    /\ last.exec = Ok(CommandOutput(1, fixture.outcome.stdout.text, <<"x", "\n">>))
    /\ ~fixture.outcome.stdout.invalid

(***************************************************************************)
(* SpecRequests: the server runtime with the requests it serves. Each      *)
(* connection task runs its handler up to the await of the executor in     *)
(* run_command (vm.rs:172-176), is suspended while the tool runs, and      *)
(* answers when the executor returns. A tool that hangs never returns.     *)
(* It starts where requests can be served: both sockets bound (both binds  *)
(* are done by the end of the first poll of try_join!), both listeners     *)
(* Running and waiting for the signal.                                     *)
(***************************************************************************)
ServingInit ==
    /\ rs_pc = "try_join"
    /\ rs_result = "Pending"
    /\ rs_error = "none"
    /\ lstate = [l \in Listeners |-> "Running"]
    /\ outcome = [l \in Listeners |-> "none"]
    /\ bound = [l \in Listeners |-> TRUE]
    /\ inflight = [l \in Listeners |-> 0]
    /\ aborted = [l \in Listeners |-> 0]
    /\ sig = [l \in Listeners |-> "waiting"]
    /\ handler = TRUE
    /\ signals = 0
    /\ proc = "running"
    /\ AdapterIdle
    /\ SurfaceIdle

\* the requests taken: GET /health, GET /vms and DELETE /vms/{name} on the
\* API listener, an embedded asset on the UI listener
RequestVerbs(l) == IF l = "api" THEN {"health", "list", "delete"} ELSE {"asset"}

\* the argument vector of the operation of a verb
multipass_args(verb, name) ==
    CASE verb = "launch" -> launch_args(name)
      [] verb = "start" -> start_args(name)
      [] verb = "stop" -> stop_args(name)
      [] verb = "restart" -> restart_args(name)
      [] verb = "delete" -> delete_args(name)
      [] verb = "info" -> info_args(name)
      [] verb = "list" -> list_args

\* what the facade returns for what the executor returned
LocalVmApi_result(verb, name, x) ==
    CASE verb = "launch" ->
            with_context(unit_result(verb, x), <<"failed to launch VM ", name>>)
      [] verb = "start" ->
            with_context(unit_result(verb, x), <<"failed to start VM ", name>>)
      [] verb = "stop" ->
            with_context(unit_result(verb, x), <<"failed to stop VM ", name>>)
      [] verb = "restart" ->
            with_context(unit_result(verb, x), <<"failed to restart VM ", name>>)
      [] verb = "delete" ->
            with_context(unit_result(verb, x), <<"failed to delete VM ", name>>)
      [] verb = "info" ->
            with_context(info_result(name, x), <<"failed to get info for VM ", name>>)
      [] verb = "list" ->
            with_context(list_result(x), <<"failed to list VMs from multipass">>)

\* the response of the handler of a verb on the primary HTTP surface
handler_response(verb, name, x) ==
    LET res == LocalVmApi_result(verb, name, x)
        result == HandlerResult([op |-> verb, name |-> name, res |-> res])
    IN CASE verb = "list" -> list_vms_response(res)
         [] verb = "info" -> get_vm_info_response(res)
         [] verb = "launch" -> envelope_response(201, result)
         [] OTHER -> envelope_response(200, result)

\* the requests that have not reached the executor yet
Waiting ==
    Cardinality({ <<l, i>> \in Listeners \X (1..MaxInflight) :
                    /\ i \in DOMAIN reqs[l]
                    /\ reqs[l][i].st = "accepted" /\ reqs[l][i].verb \in Verbs })

\* The accept loop takes a connection and spawns its task, which holds the
\* request. (The executor's calls are bounded: so are the requests that
\* need one.)
Request(l) ==
    /\ proc = "running" /\ Accepting(l)
    /\ inflight[l] < MaxInflight
    /\ inflight' = [inflight EXCEPT ![l] = @ + 1]
    /\ \E verb \in RequestVerbs(l) :
          /\ verb \in Verbs => Len(calls) + Waiting < MaxCalls
          /\ \E n \in (IF verb \in Lifecycle \cup {"info"} THEN {FixtureName} ELSE {""}) :
              reqs' = [reqs EXCEPT ![l] =
                          Append(@, [verb |-> verb, name |-> n,
                                     st |-> "accepted", call |-> 0])]
    /\ UNCHANGED <<rs_pc, rs_result, rs_error, lstate, outcome, bound, aborted,
                   sig, handler, signals, proc>>
    /\ UNCHANGED <<adapter_vars, api_calls, api_ret, resp>>

\* an executor behind a lock: an invocation waits for the one that runs
CallExecutor_locked(l, i) ==
    /\ proc \in {"running", "reported"}
    /\ i \in DOMAIN reqs[l]
    /\ reqs[l][i].st = "accepted" /\ reqs[l][i].verb \in Verbs
    /\ \A k \in Listeners : \A j \in DOMAIN reqs[k] :
          reqs[k][j].st \notin {"running", "hung"}
    /\ Len(calls) < MaxCalls
    /\ calls' = Append(calls, <<"multipass">>
                                 \o multipass_args(reqs[l][i].verb, reqs[l][i].name))
    /\ \E st \in {"running", "hung"} :
          reqs' = [reqs EXCEPT ![l][i] =
                      [@ EXCEPT !.st = st, !.call = Len(calls) + 1]]
    /\ UNCHANGED <<server_vars, ops, last, fixture, script, api_calls, api_ret,
                   resp>>

\* The task of request i of listener l reaches run_command: it calls
\* self.executor.run("multipass", &args) and is suspended. The tool then
\* runs and returns, or hangs.
CallExecutor(l, i) ==
    /\ proc \in {"running", "reported"}
    /\ i \in DOMAIN reqs[l]
    /\ reqs[l][i].st = "accepted" /\ reqs[l][i].verb \in Verbs
    /\ Len(calls) < MaxCalls
    /\ calls' = Append(calls, <<"multipass">>
                                 \o multipass_args(reqs[l][i].verb, reqs[l][i].name))
    /\ \E st \in {"running", "hung"} :
          reqs' = [reqs EXCEPT ![l][i] =
                      [@ EXCEPT !.st = st, !.call = Len(calls) + 1]]
    /\ UNCHANGED <<server_vars, ops, last, fixture, script, api_calls, api_ret,
                   resp>>

\* The handler returns its response: the connection task finishes.
Respond(l, i, r) ==
    /\ proc \in {"running", "reported"}
    /\ inflight[l] > 0
    /\ resp' = [surface |-> "http", status |-> r.status]
    /\ reqs' = [reqs EXCEPT ![l] =
                   SubSeq(@, 1, i - 1) \o SubSeq(@, i + 1, Len(@))]
    /\ inflight' = [inflight EXCEPT ![l] = @ - 1]
    /\ UNCHANGED <<rs_pc, rs_result, rs_error, lstate, outcome, bound, aborted,
                   sig, handler, signals, proc>>
    /\ UNCHANGED <<adapter_vars, api_calls, api_ret>>

\* a handler whose failure ends the process
ExecutorReturns_exiting(l, i) ==
    /\ i \in DOMAIN reqs[l] /\ reqs[l][i].st = "running"
    /\ proc \in {"running", "reported"}
    /\ \E x \in SurfaceExec(reqs[l][i].verb) :
          LET r == handler_response(reqs[l][i].verb, reqs[l][i].name, x) IN
          /\ resp' = [surface |-> "http", status |-> r.status]
          /\ proc' = IF r.status >= 400 THEN "exit1" ELSE proc
    /\ reqs' = [reqs EXCEPT ![l] =
                   SubSeq(@, 1, i - 1) \o SubSeq(@, i + 1, Len(@))]
    /\ inflight' = [inflight EXCEPT ![l] = @ - 1]
    /\ UNCHANGED <<rs_pc, rs_result, rs_error, lstate, outcome, bound, aborted,
                   sig, handler, signals>>
    /\ UNCHANGED <<adapter_vars, api_calls, api_ret>>

\* a wait for the executor that gives up: a tool that hangs is answered for
ExecutorReturns_timing_out(l, i) ==
    /\ i \in DOMAIN reqs[l] /\ reqs[l][i].st \in {"running", "hung"}
    /\ \E x \in SurfaceExec(reqs[l][i].verb) :
          Respond(l, i, handler_response(reqs[l][i].verb, reqs[l][i].name, x))

\* The executor returns to the suspended task, whose handler answers.
ExecutorReturns(l, i) ==
    /\ i \in DOMAIN reqs[l] /\ reqs[l][i].st = "running"
    /\ \E x \in SurfaceExec(reqs[l][i].verb) :
          Respond(l, i, handler_response(reqs[l][i].verb, reqs[l][i].name, x))

\* health_check and the embedded assets are answered without the tool.
Serve(l, i) ==
    /\ i \in DOMAIN reqs[l]
    /\ reqs[l][i].st = "accepted" /\ reqs[l][i].verb \notin Verbs
    /\ Respond(l, i, IF reqs[l][i].verb = "health"
                     THEN Response(200, JObj(<< <<"status", JStr("ok")>> >>))
                     ELSE Response(200, NoBody))

RequestsNext ==
    \/ Signal
    \/ \E l \in Listeners : BeginShutdown(l)
    \/ \E l \in Listeners : FinishShutdown(l)
    \/ MainExit
    \/ \E l \in Listeners : Request(l)
    \/ \E l \in Listeners : \E i \in 1..MaxInflight : CallExecutor(l, i)
    \/ \E l \in Listeners : \E i \in 1..MaxInflight : ExecutorReturns(l, i)
    \/ \E l \in Listeners : \E i \in 1..MaxInflight : Serve(l, i)

SpecRequests == ServingInit /\ [][RequestsNext]_vars

(***************************************************************************)
(* Claims about the server runtime and the requests in flight              *)
(***************************************************************************)
\* C29: whenever run_server has returned Ok, both listeners are Stopped,
\* both had bound their socket and served (been Running), and both serve
\* futures returned Ok; no listener is Binding, Running or ShuttingDown.
C29_OkOnlyWhenBothStopped ==
    rs_result = "Ok" =>
        /\ rs_pc = "returned"
        /\ \A l \in Listeners :
              /\ lstate[l] = "Stopped"
              /\ lstate[l] \notin {"Idle", "Binding", "Running", "ShuttingDown"}
              /\ bound[l]
              /\ outcome[l] = "ok"

\* C29 witness: run_server returned Ok after two signals, with both
\* listeners Stopped after having been bound.
C29_Witness ==
    /\ rs_result = "Ok" /\ rs_pc = "returned"
    /\ \A l \in Listeners : lstate[l] = "Stopped" /\ bound[l]
    /\ proc = "running"

\* the requests of listener l in the stages sts
InStage(l, sts) == { i \in DOMAIN reqs[l] : reqs[l][i].st \in sts }

Alive == proc \in {"running", "reported"}

\* every request that can go on has its next step enabled, whatever the
\* other requests wait for
NoRequestBlocked ==
    \A l \in Listeners : \A i \in DOMAIN reqs[l] :
        /\ (reqs[l][i].st = "accepted" /\ reqs[l][i].verb \in Verbs
              /\ Len(calls) < MaxCalls) => ENABLED CallExecutor(l, i)
        /\ (reqs[l][i].st = "accepted" /\ reqs[l][i].verb \notin Verbs) =>
              ENABLED Serve(l, i)
        /\ reqs[l][i].st = "running" => ENABLED ExecutorReturns(l, i)

\* a new request is taken by every listener that is Running
RequestsAccepted ==
    \A l \in Listeners :
        (proc = "running" /\ lstate[l] = "Running" /\ inflight[l] < MaxInflight) =>
            ENABLED Request(l)

\* C23: every request that has reached the executor has an invocation of
\* its own in the call log, with the argument vector of its operation, and
\* no two requests share one; a step adds an invocation exactly when one
\* request reaches the executor, and then exactly one; and a request that
\* has not reached the executor yet can do so at once, whatever invocations
\* of other requests (identical ones included) are still running.
C23_OwnInvocationNoWaiting ==
    [][ /\ \A l \in Listeners : \A i \in InStage(l, {"running", "hung"}) :
              /\ reqs[l][i].call \in 1..Len(calls)
              /\ calls[reqs[l][i].call] =
                    ExpectedCall([op |-> reqs[l][i].verb, name |-> reqs[l][i].name])
              /\ \A k \in Listeners : \A j \in InStage(k, {"running", "hung"}) :
                    (<<k, j>> # <<l, i>>) => reqs[k][j].call # reqs[l][i].call
        /\ \A l \in Listeners : \A i \in InStage(l, {"accepted"}) :
              (Alive /\ reqs[l][i].verb \in Verbs /\ Len(calls) < MaxCalls) =>
                  ENABLED CallExecutor(l, i)
        /\ LET started(l) ==
                   IF Len(reqs'[l]) = Len(reqs[l])
                   THEN { i \in DOMAIN reqs[l] :
                            reqs[l][i].st = "accepted" /\ reqs'[l][i].st # "accepted" }
                   ELSE {}
               n == Cardinality(started("api")) + Cardinality(started("ui"))
           IN /\ n \in {0, 1}
              /\ Len(calls') = Len(calls) + n
              /\ SubSeq(calls', 1, Len(calls)) = calls ]_vars

\* C23 witness: two identical requests, DELETE /vms/agent-1, are both at
\* the executor, each with its own invocation of the same argument vector.
C23_Witness ==
    /\ Len(reqs["api"]) = 2
    /\ \A i \in {1, 2} :
          /\ reqs["api"][i].verb = "delete" /\ reqs["api"][i].name = FixtureName
          /\ reqs["api"][i].st = "running"
          /\ reqs["api"][i].call = i
    /\ Len(calls) = 2 /\ calls[1] = calls[2]

\* C24: a step that answers a request with an error status leaves every
\* listener in its state, run_server pending or returned as it was and the
\* process running; and while the last answer is an error, every listener
\* that is Running takes new requests and every request in flight whose
\* tool has not hung can take its next step up to its answer.
C24_ErrorAnswerKeepsServing ==
    /\ [][ (resp'.surface = "http" /\ resp'.status >= 400
             /\ \E l \in Listeners : Len(reqs'[l]) < Len(reqs[l])) =>
               /\ lstate' = lstate
               /\ proc' = proc
               /\ rs_pc' = rs_pc /\ rs_result' = rs_result ]_vars
    /\ [](( resp.surface = "http" /\ resp.status >= 400 /\ Alive ) =>
             (NoRequestBlocked /\ RequestsAccepted))

\* C24 witness: GET /vms or DELETE /vms/{name} was answered 500 and the
\* API listener is Running with a later request in flight.
C24_Witness ==
    /\ resp.surface = "http" /\ resp.status = 500
    /\ lstate["api"] = "Running" /\ proc = "running"
    /\ Len(calls) = 2
    /\ Len(reqs["api"]) = 1 /\ reqs["api"][1].st = "running"
    /\ reqs["api"][1].call = 2

\* C25: no step answers or drops a request whose tool invocation hangs,
\* and while such a request is pending every other request in flight can
\* take its next step (its own invocation, then its answer) and every
\* listener that is Running takes new requests.
C25_HungRequestAlone ==
    /\ [][ \A l \in Listeners :
              Cardinality(InStage(l, {"hung"})) <=
              Cardinality({ i \in DOMAIN reqs'[l] : reqs'[l][i].st = "hung" }) ]_vars
    /\ [](( Alive /\ \E l \in Listeners : InStage(l, {"hung"}) # {} ) =>
             (NoRequestBlocked /\ RequestsAccepted))

\* C25 witness: the first invocation hangs and its request is pending,
\* while the request of the second invocation, issued after it, has been
\* answered 200.
C25_Witness ==
    /\ Len(reqs["api"]) = 1
    /\ reqs["api"][1].st = "hung" /\ reqs["api"][1].call = 1
    /\ Len(calls) = 2
    /\ resp.surface = "http" /\ resp.status = 200
    /\ reqs["ui"] = <<>>

\* listener l shuts down with a request whose tool invocation hangs
HungShutdown(l) ==
    /\ proc = "running"
    /\ rs_pc = "try_join" /\ rs_result = "Pending"
    /\ lstate[l] = "ShuttingDown"
    /\ InStage(l, {"hung"}) # {}

\* C30: once a listener is ShuttingDown with an in-flight request whose
\* tool invocation never returns, it is ShuttingDown in every later state
\* and run_server stays pending; and run_server returns Ok only with no
\* request left in flight on either listener.
C30_HungRequestBlocksShutdown ==
    /\ [][ \A l \in Listeners : HungShutdown(l) => HungShutdown(l)' ]_vars
    /\ [](rs_result = "Ok" => \A l \in Listeners : reqs[l] = <<>>)

\* C30 witness: the signal arrived while a request of the API listener
\* hung; the UI listener has stopped, the API listener is ShuttingDown and
\* run_server is pending.
C30_Witness ==
    /\ HungShutdown("api")
    /\ lstate["ui"] = "Stopped" /\ outcome["ui"] = "ok"
    /\ signals >= 1
====
